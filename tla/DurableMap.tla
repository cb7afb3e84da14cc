----------------------------- MODULE DurableMap -----------------------------
(***************************************************************************)
(* What an nvol3 volume promises its client: a map from keys to values     *)
(* that survives the loss of power.  A call takes effect at once and at    *)
(* most once, between its start and its return; a call cut short by the    *)
(* loss of power has taken effect or has not; and nothing else, neither a  *)
(* loss of power nor a restart nor the volume's own housekeeping, changes  *)
(* the map.                                                                *)
(***************************************************************************)
CONSTANTS Keys, Vals, NoKey, NoVal

VARIABLES
    store,  \* the value of every key, or NoVal
    up,     \* the volume is loaded or a call is in progress
    call,   \* the call in progress: op, key and val
    done,   \* it is a set or a delete that has taken effect
    ret     \* the status of the last call, "none" during a call

vars == <<up, call, done, ret, store>>

NoCall == [op |-> "none", key |-> NoKey, val |-> NoVal]
Nothing == [k \in Keys |-> NoVal]

\* The map after a call has taken effect.
Effect(c) ==
    CASE c.op = "set"               -> [store EXCEPT ![c.key] = c.val]
      [] c.op = "delete"            -> [store EXCEPT ![c.key] = NoVal]
      [] c.op \in {"reset", "wipe"} -> Nothing
      [] OTHER                      -> store

Init == store = Nothing /\ ~up /\ call = NoCall /\ done = FALSE /\ ret = "none"

Invoke ==
    /\ call = NoCall
    /\ \/ ~up /\ call' = [NoCall EXCEPT !.op = "load"]
       \/ up /\ call' \in      [op : {"set"}, key : Keys, val : Vals]
                          \cup [op : {"delete"}, key : Keys, val : {NoVal}]
                          \cup [op : {"repair", "reset", "wipe"}, key : {NoKey}, val : {NoVal}]
    /\ up' = TRUE /\ done' = FALSE /\ ret' = "none"
    /\ UNCHANGED store

Apply ==
    /\ call # NoCall /\ ~done
    /\ done' = (call.op \in {"set", "delete"})
    /\ UNCHANGED <<up, call, ret>>
    /\ store' = Effect(call)

\* A call that succeeds leaves the map as it promised; a set that fails has
\* not touched it.  Only a set fails.
Return ==
    /\ call # NoCall
    /\ call' = NoCall /\ done' = FALSE
    /\ \/ ret' = "EOK" /\ store = Effect(call)
       \/ ret' = "EFAIL" /\ call.op = "set" /\ ~done
    /\ UNCHANGED <<up, store>>

\* A delete of a key that is not there needs no step of its own.
NotFound ==
    /\ up /\ call = NoCall /\ ret' = "E_NOTFOUND"
    /\ \E k \in Keys : store[k] = NoVal
    /\ UNCHANGED <<up, call, done, store>>

\* The client unloads the volume, or wipes it.
Down ==
    /\ up /\ up' = FALSE /\ call' = NoCall /\ done' = FALSE /\ ret' = "none"
    /\ call = NoCall \/ (call.op = "wipe" /\ store = Nothing)
    /\ UNCHANGED store

PowerLoss ==
    /\ up /\ up' = FALSE /\ call' = NoCall /\ done' = FALSE /\ ret' = "none"
    /\ store' = store \/ (~done /\ store' = Effect(call))

Next == Invoke \/ Apply \/ Return \/ NotFound \/ Down \/ PowerLoss

Spec == Init /\ [][Next]_vars
=============================================================================
