----------------------------- MODULE MCPresence -----------------------------
(***************************************************************************)
(* Small instances of Presence for TLC: two users, one of them with two    *)
(* tabs, the other one watching.                                           *)
(***************************************************************************)
EXTENDS Presence, TLC

CONSTANTS alice, bob, tab1, tab2, watcher

TwoTabs == (tab1 :> alice) @@ (tab2 :> alice)
TwoTabsAndWatcher == TwoTabs @@ (watcher :> bob)
Tabs == Permutations({tab1, tab2})
=============================================================================
