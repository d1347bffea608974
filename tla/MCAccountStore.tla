--------------------------- MODULE MCAccountStore ---------------------------
(* An instance of AccountStore for TLC: an account that already backs a     *)
(* buy (5 won reserved of 9) and a sell (1 share held of 2).                *)
EXTENDS AccountStore

MCStart == [EmptyAccount EXCEPT !.cash = 9, !.reserved = 5,
                                !.qty = 2, !.cost = 5, !.held = 1]

\* One request of each shape account.c treats differently; the amounts make
\* some of them succeed and others fail depending on what came before.
MCRequests == { Ask("reserve", 3), Ask("settle", 5), Ask("set_cash", 4),
                AskAt("buy_fill", 1, 3), AskAt("sell_fill", 1, 4),
                AskAt("seed", 3, 6) }

\* Requests whose fields gcc -O2 stores with separate instructions.
MCPositionRequests == { Ask("sell_reserve", 1), AskAt("sell_fill", 2, 4) }
=============================================================================
