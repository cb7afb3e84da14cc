---------------------------- MODULE NvolDurable -----------------------------
(***************************************************************************)
(* An nvol3 volume as a DurableMap.  The map is what the next load would   *)
(* bring back from FLASH, so a step that makes FLASH recover to something  *)
(* else is a step of the abstract map, allowed only as the effect of the   *)
(* call in progress.                                                       *)
(***************************************************************************)
EXTENDS Nvol

Store == Recovered(hdr, slot)

\* Where the call in progress has taken effect: record_set has written VALID,
\* nvol3_record_delete has written INVALID.
Done == pc \in {"retire", "forget"}

Map == INSTANCE DurableMap WITH
    store <- Store, up <- (pc # "off"), call <- call, done <- Done, ret <- ret

(***************************************************************************)
(* Properties.                                                             *)
(***************************************************************************)
\* A volume is a durable map: a set or a delete that returned EOK stays, one
\* in progress at a loss of power happens or does not, and swap_sectors,
\* nvol3_repair and a restart lose and bring back nothing.
Durable == Map!Spec
=============================================================================
