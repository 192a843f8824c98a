----------------------------- MODULE SleepQueue -----------------------------
(***************************************************************************)
(* What the sleep queue promises to the tasks that share it, without saying*)
(* how: tasks fall asleep one at a time, and one wake_up releases every    *)
(* task asleep at that moment, not only the head.  The code threads the    *)
(* queue through stack frames and lets each task wake its predecessor when *)
(* it next runs; here there is just the set of tasks still waiting.        *)
(***************************************************************************)
CONSTANTS Task, Idle     \* the tasks; one of them, Idle, never queues

VARIABLES
  members,   \* tasks that exist
  running,   \* the one that has the processor
  asleep     \* tasks no wake_up has released since they fell asleep

qvars == <<members, running, asleep>>

QueueInit ==
  /\ members = {Idle}
  /\ running = Idle
  /\ asleep = {}

(* A new task appears, not asleep.                                         *)
Create(t) ==
  /\ t \notin members
  /\ members' = members \cup {t}
  /\ UNCHANGED <<running, asleep>>

(* The running task falls asleep, unless it is the idle task, and the      *)
(* processor goes to a task that is not asleep.                            *)
Yield(t) ==
  /\ asleep' = asleep \cup ({running} \ {Idle})
  /\ t \in members \ asleep'
  /\ running' = t
  /\ UNCHANGED members

(* Everybody who is asleep is released at once.                            *)
WakeAll ==
  /\ asleep' = {}
  /\ UNCHANGED <<members, running>>

QueueNext ==
  \/ \E t \in Task : Create(t) \/ Yield(t)
  \/ WakeAll

QueueSpec == QueueInit /\ [][QueueNext]_qvars
=============================================================================
