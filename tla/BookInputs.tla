----------------------------- MODULE BookInputs -----------------------------
(***************************************************************************)
(* Client inputs and risk configurations for the runs of the book.         *)
(***************************************************************************)
EXTENDS BookState, TLC

CONSTANTS alice, bob, anon    \* users; anon is Hash32::zero()

Limit(users, tifs, posts) ==
    [side : Sides, price : Prices, qty : 1..MaxQty, user : users, tif : tifs,
     post : posts]

\* One user, orders that rest.
GtcOrders == Limit({alice}, {"GTC"}, {FALSE})

\* One user, every kind of order: resting, expiring, immediate, post-only.
AllKinds == Limit({alice}, {"GTC", "DAY", "IOC", "FOK"}, {FALSE})
                \cup Limit({alice}, {"GTC"}, {TRUE})

\* Two users.
TwoUsers == Limit({alice, bob}, {"GTC"}, {FALSE})
TwoUsersFok == TwoUsers \cup Limit({alice, bob}, {"FOK"}, {FALSE})
TwoUsersIoc == TwoUsers \cup Limit({alice, bob}, {"IOC"}, {FALSE})

NoRisk == [on |-> FALSE, maxOpen |-> 0, maxNotional |-> 0, band |-> 0,
           source |-> "none", fixed |-> 0]

\* At most two open orders and a notional of 6 an account, no price band.
Limits == [on |-> TRUE, maxOpen |-> 2, maxNotional |-> 6, band |-> 0,
           source |-> "none", fixed |-> 0]
OneOrder == [Limits EXCEPT !.maxOpen = 1]

OneOrderLater == {OneOrder}
EitherLimit == {Limits, OneOrder}

\* Prices within 30% of the middle of the book.
MidBand == [on |-> TRUE, maxOpen |-> 100, maxNotional |-> 100, band |-> 3000,
            source |-> "mid", fixed |-> 0]

\* Ids are interchangeable; so are the two users where the orders treat them
\* alike.
IdSymmetry == Permutations(Ids)
IdUserSymmetry == Permutations(Ids) \cup Permutations({alice, bob})
=============================================================================
