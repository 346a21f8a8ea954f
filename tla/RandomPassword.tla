--------------------------- MODULE RandomPassword ---------------------------
(***************************************************************************)
(* internal/model: RandomPassword, which MySQL's policy has to accept. Of  *)
(* a character only its class matters; a random base64url character may    *)
(* have any, which is class "any" here.                                    *)
(***************************************************************************)
EXTENDS Integers, Sequences

CONSTANTS
    N,       \* length of the base64url text, 32 in the code
    Bytes    \* the values of a random byte, 0..255 in the code

\* RandomPassword returns an error for less than 8 characters.
ASSUME PasswordAssumption == N \in Nat /\ N >= 8 /\ Bytes \subseteq Nat

Slots   == 0 .. N - 1
Classes == <<"lower", "upper", "digit", "special">>

VARIABLES
    idx,    \* the four random bytes
    i,      \* index of the loop, and then of the four assignments
    pos,    \* pos[k]: the slot of class k
    seen,   \* the slots marked in the map
    pw      \* pw[j]: the class of character j

passwordVars == <<idx, i, pos, seen, pw>>

PasswordInit ==
    /\ idx \in [1 .. 4 -> Bytes]
    /\ i = 1
    /\ pos = [k \in 1 .. 4 |-> idx[k] % N]
    /\ seen = {}
    /\ pw = [j \in Slots |-> "any"]

Free == Slots \ seen

Least(S) == CHOOSE j \in S : \A k \in S : j <= k

\* Variant: the slot taken instead is not marked.
ReplaceUnmarked ==
    /\ i <= 4
    /\ pos[i] \in seen /\ Free # {}
    /\ pos' = [pos EXCEPT ![i] = Least(Free)]
    /\ i' = i + 1
    /\ UNCHANGED <<idx, seen, pw>>

\* The position is taken already: the first unmarked slot.
Replace ==
    /\ i <= 4
    /\ pos[i] \in seen /\ Free # {}
    /\ pos' = [pos EXCEPT ![i] = Least(Free)]
    /\ seen' = seen \cup {Least(Free)}
    /\ i' = i + 1
    /\ UNCHANGED <<idx, pw>>

Keep ==
    /\ i <= 4
    /\ pos[i] \notin seen
    /\ seen' = seen \cup {pos[i]}
    /\ i' = i + 1
    /\ UNCHANGED <<idx, pos, pw>>

\* pw[pos[0]] = lowerSet[...] and the other three, in their order.
Put ==
    /\ i \in 5 .. 8
    /\ pw' = [pw EXCEPT ![pos[i - 4]] = Classes[i - 4]]
    /\ i' = i + 1
    /\ UNCHANGED <<idx, pos, seen>>

PasswordNext == Replace \/ Keep \/ Put

PasswordSpec == PasswordInit /\ [][PasswordNext]_passwordVars

----------------------------------------------------------------------------
(* Properties                                                              *)

PasswordTypeOK ==
    /\ idx \in [1 .. 4 -> Bytes]
    /\ i \in 1 .. 9
    /\ pos \in [1 .. 4 -> Slots]
    /\ seen \subseteq Slots
    /\ pw \in [Slots -> {"any", "lower", "upper", "digit", "special"}]

(* What the loop keeps: the positions it has passed differ pairwise and    *)
(* are the marked ones, whichever bytes collide (secret.go:62-76).         *)
PassedAreDistinct ==
    /\ \A j \in 1 .. 4 : j < i => pos[j] \in seen
    /\ \A j, k \in 1 .. 4 : j < k /\ k < i => pos[j] # pos[k]

(* The password has a character of each class (secret.go:26-29).           *)
EveryClassPresent ==
    i = 9 => \A k \in 1 .. 4 : \E j \in Slots : pw[j] = Classes[k]

(* What the assignments rely on and have done: nothing but the passed      *)
(* positions is marked, and a later class takes no slot of an earlier one. *)
PasswordInv ==
    /\ PasswordTypeOK
    /\ PassedAreDistinct
    /\ \A s \in seen : \E j \in 1 .. 4 : j < i /\ pos[j] = s
    /\ \A k \in 1 .. 4 : k + 4 < i => pw[pos[k]] = Classes[k]
=============================================================================
