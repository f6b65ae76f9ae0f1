--------------------------- MODULE BuildLifecycle ---------------------------
(***************************************************************************)
(* What the CodeGraph build table promises about one build, whatever the   *)
(* controller threads, Flux, Argo and crashes do: a build is recorded      *)
(* once, it is executed at most once, it is only called submitted when its *)
(* execution exists, and its row moves along                               *)
(*     received -> submitted -> running -> succeeded                       *)
(* with the terminal alternatives failed and superseded; a terminal row    *)
(* never moves again.  CodegraphBuilds implements this specification.      *)
(***************************************************************************)
EXTENDS Naturals

CONSTANT Builds

VARIABLES life,      \* life[b]: the state column of the row, or "absent"
          launches   \* launches[b]: how many executions of b were ever created

lifecycleVars == <<life, launches>>

Settled == {"succeeded", "failed", "superseded"}
Active == {"submitted", "running"}

LifecycleInit ==
    /\ life = [b \in Builds |-> "absent"]
    /\ launches = [b \in Builds |-> 0]

MoveTo(b, from, to) ==
    /\ life[b] \in from
    /\ life' = [life EXCEPT ![b] = to]
    /\ UNCHANGED launches

Record(b) == MoveTo(b, {"absent"}, "received")

Launch(b) ==
    /\ life[b] # "absent"
    /\ launches[b] = 0
    /\ launches' = [launches EXCEPT ![b] = 1]
    /\ UNCHANGED life

Submit(b) ==
    /\ launches[b] = 1
    /\ MoveTo(b, {"received"}, "submitted")

Supersede(b) == MoveTo(b, {"received"}, "superseded")

Start(b) == MoveTo(b, {"submitted"}, "running")

Succeed(b) == MoveTo(b, Active, "succeeded")

Fail(b) == MoveTo(b, Active, "failed")

LifecycleNext ==
    \E b \in Builds :
        \/ Record(b)
        \/ Launch(b)
        \/ Submit(b)
        \/ Supersede(b)
        \/ Start(b)
        \/ Succeed(b)
        \/ Fail(b)

LifecycleSpec == LifecycleInit /\ [][LifecycleNext]_lifecycleVars
=============================================================================
