---------------------------- MODULE MCTransactions ----------------------------
(* A small instance of Transactions for TLC.  Three transactions with token  *)
(* transfers share a behaviour: a transfer back and forth, a token account   *)
(* that is emptied and closed in favour of a new one, and two payments in a  *)
(* transaction whose balances name no owners, with the mint among its        *)
(* accounts.  Transactions without any come alone: nothing in their          *)
(* transformation waits, so they could not meet.                             *)
EXTENDS Transactions

MCBalance(index, mint, owner, amount) ==
    [index |-> index, mint |-> mint, owner |-> owner, amount |-> amount]
MCIx(program, kind, accounts, amount) ==
    [program |-> program, kind |-> kind, accounts |-> accounts, amount |-> amount]
MCCall(program) == MCIx(program, "Call", <<1>>, None)

\* A payment by a program, between two transfers of lamports.
MCBackAndForth ==
    [accounts |-> <<"alice", "purse", "vault", "bank", "token", "system", "market">>,
     pre  |-> <<MCBalance(2, "gold", "alice", 5), MCBalance(3, "gold", "bank", 0)>>,
     post |-> <<MCBalance(2, "gold", "alice", 3), MCBalance(3, "gold", "bank", 2)>>,
     before |-> <<9, 2, 2, 4, 1, 1, 1>>, after |-> <<5, 2, 2, 7, 1, 1, 1>>, fee |-> 1,
     instructions |-> <<MCIx(6, "Transfer", <<1, 4>>, 4), MCCall(7)>>,
     inner |-> <<[index |-> 2, instructions |->
                    <<MCIx(5, "Transfer", <<2, 3, 1>>, 3), MCIx(6, "Transfer", <<4, 1>>, 1),
                      MCIx(5, "Transfer", <<3, 2, 4>>, 1)>>]>>]

\* The new account is paid for with what the closed one held.
MCMoveOut ==
    [accounts |-> <<"bank", "vault", "chest", "gold", "token2022", "system">>,
     pre  |-> <<MCBalance(2, "gold", "bank", 2)>>,
     post |-> <<MCBalance(3, "gold", "alice", 2)>>,
     before |-> <<9, 2>>, after |-> <<8, 0, 2, 1, 1, 1>>, fee |-> 1,
     instructions |-> <<MCIx(6, "CreateAccount", <<1, 3>>, 2),
                        MCIx(5, "TransferChecked", <<2, 4, 3, 1>>, 2),
                        MCIx(5, "CloseAccount", <<2, 1, 1>>, None)>>,
     inner |-> <<>>]

MCUnowned ==
    [accounts |-> <<"bank", "chest", "vault", "gold", "token">>,
     pre  |-> <<MCBalance(2, "gold", None, 2)>>,
     post |-> <<MCBalance(2, "gold", None, 2)>>,
     before |-> <<9, 2, 2, 1, 1>>, after |-> <<8, 2, 2, 1, 1>>, fee |-> 1,
     instructions |-> <<MCIx(5, "Transfer", <<3, 2, 1>>, 1), MCIx(5, "Transfer", <<3, 2, 1>>, 1)>>,
     inner |-> None]

-----------------------------------------------------------------------------
(* Transactions that move lamports: an instruction, and one in a program's   *)
(* call, of every kind each.  What they do to the balances is what the       *)
(* System program does (external).  Nine lamports are no double here.        *)
MCSystem == 4
MCMarket == 5
MCNativeIxs ==
    <<MCIx(MCSystem, "Transfer", <<1, 2>>, 1),
      MCIx(MCSystem, "Transfer", <<2, 1>>, 2),
      MCIx(MCSystem, "TransferWithSeed", <<1, 2, 3>>, 3),
      MCIx(MCSystem, "CreateAccount", <<1, 3>>, 4),
      MCIx(MCSystem, "WithdrawNonceAccount", <<2, 3>>, 9),
      MCIx(MCSystem, "CreateAccountWithSeed", <<1, 3, 1>>, None),
      MCIx(MCSystem, "Assign", <<3>>, None),
      MCIx(MCMarket, "Transfer", <<1, 2>>, 6)>>

MCMoves(ix) ==
    IF ix.program # MCSystem \/ ix.kind = "Assign" THEN [i \in 1..3 |-> 0]
    ELSE LET to == IF ix.kind = "TransferWithSeed" THEN 3 ELSE ix.accounts[2]
             amount == IF ix.amount = None THEN 7 ELSE ix.amount
         IN  [i \in 1..3 |-> IF i = ix.accounts[1] THEN -amount ELSE IF i = to THEN amount ELSE 0]

MCNative(a, b) ==
    [accounts |-> <<"alice", "bob", "carol", "system", "market">>,
     pre |-> <<>>, post |-> <<>>,
     before |-> <<20, 20, 0, 1, 1>>,
     after |-> <<20 + MCMoves(a)[1] + MCMoves(b)[1] - 1, 20 + MCMoves(a)[2] + MCMoves(b)[2],
                 MCMoves(a)[3] + MCMoves(b)[3], 1, 1>>,
     fee |-> 1,
     instructions |-> <<a, MCCall(MCMarket)>>,
     inner |-> <<[index |-> 2, instructions |-> <<b>>]>>]

\* Signatures are numbers.
MCTogether == 1..3
MCMessages ==
    <<MCBackAndForth, MCMoveOut, MCUnowned>> \o
    [n \in 1..64 |-> MCNative(MCNativeIxs[((n - 1) \div 8) + 1], MCNativeIxs[((n - 1) % 8) + 1])]

MCInfo(account, owner) == [account |-> account, mint |-> "gold", owner |-> owner]
MCFound ==
    "purse" :> {MCInfo("purse", "alice")} @@
    "vault" :> {MCInfo("vault", "bank")} @@
    "chest" :> {MCInfo("chest", "alice")}

\* The balances above are what LedgerMoves says they are.
ASSUME BalancesAssumption == LedgerMoves
=============================================================================
