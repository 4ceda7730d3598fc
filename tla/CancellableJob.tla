---------------------------- MODULE CancellableJob ----------------------------
(***************************************************************************)
(* What one call of the exported spi() promises the program that loads the *)
(* DLL: a job is set up or refused, works through the pages of its range,  *)
(* may be asked to stop while it works, and answers                        *)
(*   - success only when the whole range was worked through and nobody     *)
(*     managed to ask for a stop,                                          *)
(*   - "cancelled" only when somebody did ask,                             *)
(*   - an error only when no page was touched.                             *)
(* A job may also be lost (its call is left by an exception), and then it  *)
(* promises nothing about the pages.                                       *)
(***************************************************************************)
EXTENDS Naturals

CONSTANT Pages          \* every page number a job can name

VARIABLES
  phase,                \* "idle", "setup", "working" or "closing"
  todo,                 \* pages the job is to work through
  worked,               \* pages it has worked through
  asked,                \* has a stop been asked of this job?
  outcome               \* how the last job ended

vars == <<phase, todo, worked, asked, outcome>>

Outcomes == {"none", "success", "cancelled", "error", "lost"}

TypeOK ==
  /\ phase \in {"idle", "setup", "working", "closing"}
  /\ todo \in SUBSET Pages
  /\ worked \in SUBSET Pages
  /\ asked \in BOOLEAN
  /\ outcome \in Outcomes

Init ==
  /\ phase = "idle"
  /\ todo = {}
  /\ worked = {}
  /\ asked = FALSE
  /\ outcome = "none"

Start ==
  /\ phase = "idle"
  /\ phase' = "setup"
  /\ todo' = {}
  /\ worked' = {}
  /\ asked' = FALSE
  /\ outcome' = "none"

Begin ==
  /\ phase = "setup"
  /\ phase' = "working"
  /\ todo' \in SUBSET Pages
  /\ UNCHANGED <<worked, asked, outcome>>

(* Pages are only ever added to the finished ones, and only pages of the   *)
(* range.                                                                  *)
Work ==
  /\ phase = "working"
  /\ worked' \in SUBSET todo
  /\ worked \subseteq worked'
  /\ UNCHANGED <<phase, todo, asked, outcome>>

Ask ==
  /\ phase \in {"setup", "working"}
  /\ asked' = TRUE
  /\ UNCHANGED <<phase, todo, worked, outcome>>

(* The point after which a stop can no longer be honoured. *)
Close ==
  /\ phase = "working"
  /\ worked = todo
  /\ ~asked
  /\ phase' = "closing"
  /\ UNCHANGED <<todo, worked, asked, outcome>>

End(o) ==
  /\ phase # "idle"
  /\ o = "success" => /\ ~asked
                      /\ worked = todo
  /\ o = "cancelled" => asked
  /\ o = "error" => worked = {}
  /\ phase' = "idle"
  /\ outcome' = o
  /\ UNCHANGED <<todo, worked, asked>>

Next ==
  \/ Start
  \/ Begin
  \/ Work
  \/ Ask
  \/ Close
  \/ \E o \in Outcomes \ {"none"} : End(o)

Spec == Init /\ [][Next]_vars

===============================================================================
