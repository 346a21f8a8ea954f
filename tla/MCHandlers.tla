----------------------------- MODULE MCHandlers -----------------------------
(* Instances of Handlers and Listing: the answers of the API to one request *)
(* at a time, and the lists while others write.                            *)
EXTENDS Handlers, Listing

N(len, first, chars, words) ==
    [len |-> len, first |-> first, chars |-> chars, words |-> words]

\* One name of every kind, at the lengths where something changes.
Kinds ==
    {N(len, "alnum", {"alnum"}, {}) : len \in {1, 27, 28, 59, 60, 61, 62, 63, 64}}
    \cup {N(9, f, c \cup {"alnum"}, {}) : f \in {"alnum", "sep", "other"},
                                          c \in SUBSET {"hyphen", "underscore", "other"}}
    \cup {N(12, "alnum", {"alnum", "hyphen"}, {w}) : w \in {"secret", "grant"}}
    \cup {N(0, "other", {}, {})}

NoWords == {}

----------------------------------------------------------------------------
At(second, digits) == [second |-> second, digits |-> digits]

\* The texts of the first three are in the reverse order.
MCTimes == <<At(5, <<>>), At(5, <<1>>), At(5, <<1, 5>>), At(6, <<>>)>>

BothInit == Init /\ ListingInit
BothNext == \/ ListingInit /\ Next /\ UNCHANGED listingVars
            \/ call = NoCall /\ ListingNext /\ UNCHANGED call
BothSpec == BothInit /\ [][BothNext]_<<call, listingVars>>
=============================================================================
