------------------------------- MODULE Limiter -------------------------------
(***************************************************************************)
(* What refresh_if_due of src/vault/mod.rs promises to the Vaultwarden     *)
(* server: however many callers miss at once, one on-demand refresh runs   *)
(* at a time, and it begins MinRefresh ticks or more after the last one    *)
(* that succeeded.  One that fails leaves the next caller free to try.     *)
(***************************************************************************)
EXTENDS Naturals

CONSTANT MinRefresh  \* min_refresh_interval, in ticks

VARIABLES
  busy,   \* an on-demand refresh is running
  since   \* ticks since one succeeded (at most MinRefresh)

vars == <<busy, since>>

Init == busy = FALSE /\ since = MinRefresh

Begin == ~busy /\ since >= MinRefresh /\ busy' = TRUE /\ UNCHANGED since

Succeed == busy /\ busy' = FALSE /\ since' = 0

Fail == busy /\ busy' = FALSE /\ UNCHANGED since

Tick == since < MinRefresh /\ since' = since + 1 /\ UNCHANGED busy

Next == Begin \/ Succeed \/ Fail \/ Tick

Spec == Init /\ [][Next]_vars
=============================================================================
