------------------------------ MODULE MCCache ------------------------------
(* The players of Cache that never seek back, side by side: one that reads    *)
(* on, one that skips ahead and one that posts controls; and one that gives   *)
(* the cache up and reads with the stream's own buffer, as StreamRead does.   *)
EXTENDS Cache, StreamRead

VARIABLE player

InitForward ==
    /\ player \in {"reads", "skips", "controls", "uncached"}
    /\ Init /\ StreamInit
    /\ player # "uncached" => kind = File

CacheStep(p, A) == player = p /\ A /\ UNCHANGED <<player, streamVars>>
NextForward ==
    \/ CacheStep("reads", SequentialNext)
    \/ CacheStep("skips", SkippingNext)
    \/ CacheStep("controls", ControllingNext)
    \/ CacheStep("uncached", Uninit \/ Terminated)
    \/ player = "uncached" /\ rpc = "closed" /\ StreamNext /\ UNCHANGED <<player, vars>>

ForwardSpec == InitForward /\ [][NextForward]_<<player, vars, streamVars>> /\ Fairness
=============================================================================
