---------------------------- MODULE MCShopifySync ----------------------------
(* The instances of ShopifySync that TLC checks.                           *)
EXTENDS ShopifySync, TLC

SyncSymmetry == Permutations(Syncs)
OneProduct == {<<"products", 1>>}
OneOfTwo == {<<"products", 1>>, <<"orders", 1>>}
TwoKinds == {<<"products", 1>>, <<"products", 2>>, <<"orders", 1>>}
AllTypes == Resources \cup {"all"}
AnyFault == Live \cup Pcs \cup {"due", "acked"} \cup HookSteps

\* Three syncs one after the other; two that overlap, with webhooks and any
\* fault; two that overlap, with faults that leave the process running.
Serial == [records |-> TwoKinds, syncs |-> 3, width |-> 1, types |-> AllTypes,
           modes |-> BOOLEAN, limit |-> 2, edits |-> FALSE, hooks |-> FALSE,
           ordered |-> TRUE, faults |-> Live]
Racing == [records |-> OneOfTwo, syncs |-> 2, width |-> 2,
           types |-> {"orders", "all"},
           modes |-> {FALSE}, limit |-> 1, edits |-> FALSE, hooks |-> TRUE,
           ordered |-> FALSE, faults |-> AnyFault]
Closing == [Racing EXCEPT !.hooks = FALSE,
                          !.faults = Live \cup {"counting", "notifying"}]
AllSettings == {Serial, Racing, Closing}

\* Webhooks in order, one handler at a time, a store that changes meanwhile.
InOrder == [records |-> OneProduct, syncs |-> 2, width |-> 1,
            types |-> {"products", "all"}, modes |-> BOOLEAN, limit |-> 1,
            edits |-> TRUE, hooks |-> TRUE, ordered |-> TRUE,
            faults |-> {"storing", "moving", "closing"}]
Delivery == {InOrder}
==============================================================================
