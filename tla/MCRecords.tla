------------------------------ MODULE MCRecords ------------------------------
EXTENDS Records, TLC

\* Users, addresses, templates, template parts and requests are interchangeable.
Symmetry ==
  Permutations(Users) \cup Permutations(Emails) \cup Permutations(Templates)
    \cup Permutations(TemplateParts) \cup Permutations(Requests)
=============================================================================
