------------------------------- MODULE Alerts -------------------------------
(***************************************************************************)
(* SLA alerts: while the service desk works, a cron job goes over the      *)
(* tickets that are assigned and due and tells their technicians, by       *)
(* e-mail, by a notification, or both, as the tenant's settings say.  The  *)
(* job reads settings and tickets at the start, and looks at the           *)
(* notifications there are before each alert; it may die anywhere.         *)
(*                                                                         *)
(* The e-mail goes first and leaves no trace; the job does not look at     *)
(* what became of it.  Only a notification tells the next call that the    *)
(* technician knows, and he may delete it.                                 *)
(***************************************************************************)
EXTENDS Desk

CONSTANTS MaxFaults,    \* bound: how often a run of the job dies
          NoRun

Levels == {"warning", "critical"}
Alert == [ticket : Tickets, technician : Technicians, level : Levels]

\* A run of the job: the settings it read, the tickets it has yet to visit with the
\* technician each had, and the alert it found due, to be mailed and to be noted.
Run == [email : BOOLEAN, inApp : BOOLEAN, todo : SUBSET (Tickets \X Technicians),
        mail : SUBSET Alert, note : SUBSET Alert]

ASSUME AlertsAssumption ==
  /\ MaxFaults \in Nat
  /\ NoRun \notin Run

VARIABLES level,     \* how much of its time each ticket has used up
          recent,    \* notifications of the last 24 hours, by alert
          email,     \* slaEmailEnabled
          inApp,     \* slaInAppEnabled
          run,       \* the cron job
          told,      \* history: how often each alert was given in the last 24 hours;
                     \* bound: counted up to two
          lost,      \* history: those of them that left no notification, or not for long
          faults

settings == <<email, inApp>>
history == <<told, lost>>
alertVars == <<level, recent, settings, run, history, faults>>
vars == <<deskVars, alertVars>>

\* Levels, notifications and the job are well formed.
TypeOK ==
  /\ DeskTypeOK
  /\ level \in [Tickets -> Levels \cup {"fine"}]
  /\ recent \in [Alert -> Nat]
  /\ email \in BOOLEAN /\ inApp \in BOOLEAN
  /\ run \in Run \cup {NoRun}
  /\ told \in [Alert -> 0 .. 2] /\ lost \subseteq Alert
  /\ faults \in 0 .. MaxFaults

Init ==
  /\ DeskInit
  /\ level = [t \in Tickets |-> "fine"]
  /\ recent = [a \in Alert |-> 0]
  /\ email = TRUE /\ inApp = TRUE
  /\ run = NoRun
  /\ told = [a \in Alert |-> 0] /\ lost = {}
  /\ faults = 0

-----------------------------------------------------------------------------
(* Time, settings and technicians. *)

\* A ticket with a due date uses up its time: slaWarningPercent of it, then
\* slaCriticalPercent.
Ages(t) ==
  /\ Exists(t) /\ ticket[t].due
  /\ \/ level[t] = "fine" /\ level' = [level EXCEPT ![t] = "warning"]
     \/ level[t] # "critical" /\ level' = [level EXCEPT ![t] = "critical"]
  /\ UNCHANGED <<deskVars, recent, settings, run, history, faults>>

\* An alert turns 24 hours old: the e-mail, then the notification, which is younger.
TurnsOld(a) ==
  /\ \/ /\ told[a] > 0
        /\ told' = [told EXCEPT ![a] = told[a] - 1]
        /\ lost' = IF told[a] = 1 THEN lost \ {a} ELSE lost
        /\ UNCHANGED recent
     \/ /\ told[a] = 0 /\ recent[a] > 0
        /\ recent' = [recent EXCEPT ![a] = recent[a] - 1]
        /\ UNCHANGED history
  /\ UNCHANGED <<deskVars, level, settings, run, faults>>

\* updateSLASettings.
SetsSLA ==
  /\ email' \in BOOLEAN /\ inApp' \in BOOLEAN
  /\ UNCHANGED <<deskVars, level, recent, run, history, faults>>

Loses(S) == lost' = lost \cup {a \in S : told'[a] > 0}

\* deleteMyNotification.
DeletesNotification(a) ==
  /\ recent[a] > 0
  /\ recent' = [recent EXCEPT ![a] = recent[a] - 1]
  /\ UNCHANGED <<deskVars, level, settings, run, told, faults>>
  /\ Loses({a})

-----------------------------------------------------------------------------
(* GET /api/cron/sla-check. *)

\* Mutant: tickets nobody has are listed too.
Watched_Unassigned(t) ==
  /\ Exists(t) /\ ticket[t].status \notin {"CLOSED", "CANCELLED", "RESOLVED"}
  /\ ticket[t].due

Watched(t) ==
  /\ Exists(t) /\ ticket[t].status \notin {"CLOSED", "CANCELLED", "RESOLVED"}
  /\ ticket[t].due /\ ticket[t].assignee # Nobody

\* A tenant with neither kind of alert has no ticket listed.
CronLists ==
  /\ run = NoRun
  /\ run' = [email |-> email, inApp |-> inApp, mail |-> {}, note |-> {},
             todo |-> {<<t, ticket[t].assignee>> :
                         t \in {u \in Tickets : Watched(u) /\ (email \/ inApp)}}]
  /\ UNCHANGED <<deskVars, level, recent, settings, history, faults>>

\* Mutant: any notice about the ticket will do, whatever its level.
Known_AnyLevel(a) ==
  \E b \in Alert : b.ticket = a.ticket /\ b.technician = a.technician /\ recent[b] > 0

\* "Check recent notification to avoid spam".
Known(a) == recent[a] > 0

Between == run # NoRun /\ run.mail = {} /\ run.note = {}

\* The next ticket of the list: its level by now, and whether it is known.
CronVisits ==
  /\ Between
  /\ \E p \in run.todo :
       LET alert == [ticket |-> p[1], technician |-> p[2], level |-> level[p[1]]]
           due == level[p[1]] # "fine" /\ ~Known(alert)
       IN run' = [run EXCEPT !.todo = run.todo \ {p},
                             !.mail = IF due /\ run.email THEN {alert} ELSE {},
                             !.note = IF due /\ run.inApp THEN {alert} ELSE {}]
  /\ UNCHANGED <<deskVars, level, recent, settings, history, faults>>

Tells(a) == told' = [told EXCEPT ![a] = IF told[a] = 0 THEN 1 ELSE 2]

\* Nothing is asked of the ticket again.
CronMails ==
  /\ run # NoRun
  /\ \E a \in run.mail : Tells(a) /\ IF run.inApp THEN UNCHANGED lost ELSE Loses({a})
  /\ run' = [run EXCEPT !.mail = {}]
  /\ UNCHANGED <<deskVars, level, recent, settings, faults>>

\* Mutant: every notification says CRÍTICO.
CronNotes_AllCritical ==
  /\ run # NoRun /\ run.mail = {}
  /\ \E a \in run.note :
       LET b == [a EXCEPT !.level = "critical"] IN
       /\ recent' = [recent EXCEPT ![b] = recent[b] + 1]
       /\ IF run.email THEN UNCHANGED told ELSE Tells(a)
  /\ run' = [run EXCEPT !.note = {}]
  /\ UNCHANGED <<deskVars, level, settings, lost, faults>>

CronNotes ==
  /\ run # NoRun /\ run.mail = {}
  /\ \E a \in run.note :
       /\ recent' = [recent EXCEPT ![a] = recent[a] + 1]
       /\ IF run.email THEN UNCHANGED told ELSE Tells(a)
  /\ run' = [run EXCEPT !.note = {}]
  /\ UNCHANGED <<deskVars, level, settings, lost, faults>>

CronEnds ==
  /\ Between /\ run.todo = {}
  /\ run' = NoRun
  /\ UNCHANGED <<deskVars, level, recent, settings, history, faults>>

\* The process dies, or the database fails a statement of the job; a technician
\* who was mailed may have no notification.
CronDies ==
  /\ run # NoRun /\ faults < MaxFaults
  /\ run' = NoRun /\ faults' = faults + 1
  /\ UNCHANGED <<deskVars, level, recent, settings, told>>
  /\ Loses(IF run.email /\ run.mail = {} THEN run.note ELSE {})

Cron == CronLists \/ CronVisits \/ CronMails \/ CronNotes \/ CronEnds

Next ==
  \/ DeskNext /\ UNCHANGED alertVars
  \/ \E t \in Tickets : Ages(t)
  \/ \E a \in Alert : TurnsOld(a) \/ DeletesNotification(a)
  \/ SetsSLA
  \/ Cron \/ CronDies

Spec == Init /\ [][Next]_vars

\* The job is called again and again, one call after the other, and goes on while
\* it lives.
FairSpec == Spec /\ WF_vars(Cron)

-----------------------------------------------------------------------------
(* Properties. *)

\* "Once per 24h for same level", as far as it goes: a technician is told twice in a
\* day only where an alert left no notification behind -- notifications were turned
\* off, the job died after its e-mail, he deleted it.
OncePerDay == \A a \in Alert : told[a] > 1 => a \in lost

\* A ticket past its critical share of time comes to the notice of whoever has it,
\* on the day it gets there and every day after, unless it is settled, given to
\* someone else or alerts of both kinds are turned off.
Owed(t, u) ==
  Watched(t) /\ ticket[t].assignee = u /\ level[t] = "critical" /\ (email \/ inApp)

TechnicianIsTold ==
  \A t \in Tickets, u \in Technicians :
    LET a == [ticket |-> t, technician |-> u, level |-> "critical"]
    IN Owed(t, u) ~> told[a] > 0 \/ recent[a] > 0 \/ ~Owed(t, u)
=============================================================================
