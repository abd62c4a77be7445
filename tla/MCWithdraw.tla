----------------------------- MODULE MCWithdraw -----------------------------
(***************************************************************************)
(* TLC's instance of Withdraw: two good pairs of one worker, for which     *)
(* three requests come in.                                                 *)
(***************************************************************************)
EXTENDS Withdraw, TLC

CONSTANTS r1, r2, r3, alice, wallet

Pair(payout, fee) ==
    [signer |-> alice, session |-> alice, to |-> wallet, typed |-> wallet,
     feeTo |-> Treasury, payout |-> payout, fee |-> fee]

MCPairs == {Pair(98, 2), Pair(147, 3)}
MCCalls == MCPairs \X {"payout", "fee"}

Requests == Permutations({r1, r2, r3})
==============================================================================
