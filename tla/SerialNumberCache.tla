-------------------------- MODULE SerialNumberCache --------------------------
(***************************************************************************)
(* SerialNumberCache keeps the serial numbers of the inventory as integers *)
(* in two sorted vectors, one of them with the digits reversed, to answer  *)
(* the searches of the user interface by the beginning ("24f5") or by the  *)
(* end ("*5f42") of a serial number with a binary search.                  *)
(***************************************************************************)
EXTENDS Integers, Sequences, SequencesExt

CONSTANTS Base,         \* 16
          Digits,       \* 12, the digits of a serial number
          WordDigits    \* 16, the digits of a uint64_t

ASSUME SerialAssumption ==
    /\ Base \in Nat \ {0, 1} /\ Digits \in Nat \ {0} /\ WordDigits \in Nat
    /\ WordDigits >= Digits

VARIABLES SNs, ReverseSNs

svars == <<SNs, ReverseSNs>>

Numbers == 0..(Base ^ Digits - 1)

-----------------------------------------------------------------------------
\* std::stoull, and the last digits of a number, most significant first.
Stoull(S) == FoldLeft(LAMBDA n, d : n * Base + d, 0, S)
DigitsOf(n, width) == [k \in 1..width |-> (n \div Base ^ (width - k)) % Base]
IntToSerialNumber(n) == DigitsOf(n, Digits)

ReverseSerialNumber(S) == Reverse(S)

\* Mutant: the digits above the serial number stay in the result.
ReversedUnshifted(n) == Stoull(Reverse(DigitsOf(n, WordDigits)))

\* uint64_t Reverse(uint64_t): all digits of the word, then the empty ones go.
Reversed(n) == Stoull(Reverse(DigitsOf(n, WordDigits))) \div Base ^ (WordDigits - Digits)

\* std::lower_bound, as an index that may be one past the end.
LowerBound(arr, n) == Cardinality({k \in 1..Len(arr) : arr[k] < n}) + 1

Inserted(arr, n) == InsertAt(arr, LowerBound(arr, n), n)
\* The first that is found goes, if any.
Erased(arr, n) ==
    IF n \in Range(arr)
    THEN RemoveAt(arr, CHOOSE k \in DOMAIN arr : arr[k] = n /\ \A j \in 1..(k - 1) : arr[j] # n)
    ELSE arr

AddSerialNumber(n) ==
    /\ n \notin Range(SNs)
    /\ SNs' = Inserted(SNs, n)
    /\ ReverseSNs' = Inserted(ReverseSNs, Stoull(ReverseSerialNumber(IntToSerialNumber(n))))

DeleteSerialNumber(n) ==
    /\ n \in Range(SNs)
    /\ SNs' = Erased(SNs, n)
    /\ ReverseSNs' = Erased(ReverseSNs, Stoull(ReverseSerialNumber(IntToSerialNumber(n))))

-----------------------------------------------------------------------------
\* The loop of ReturnNumbers: from the lower bound on, while the digits match and
\* HowMany is not used up.
Scanned(S, howMany, arr, reversed) ==
    LET first == LowerBound(arr, Stoull(S \o [k \in 1..(Digits - Len(S)) |-> 0]))
        Text(n) == IF reversed THEN ReverseSerialNumber(IntToSerialNumber(Reversed(n)))
                               ELSE IntToSerialNumber(n)
        Matches(k) == IsPrefix(S, Text(arr[k]))
        last == CHOOSE k \in (first - 1)..Len(arr) :
                    /\ \A j \in first..k : Matches(j) /\ j - first < howMany
                    /\ k = Len(arr) \/ k + 1 - first >= howMany \/ ~Matches(k + 1)
    IN  SubSeq(arr, first, last)

ReturnNumbers(S, howMany, arr, reversed) ==
    LET Result(n) == IF reversed THEN Reversed(n) ELSE n
        found == IF Len(S) = Digits
                 THEN IF Contains(arr, Stoull(S)) THEN <<Stoull(S)>> ELSE <<>>
                 ELSE Scanned(S, howMany, arr, reversed)
    IN  [k \in DOMAIN found |-> Result(found[k])]

\* FindNumbers of a pattern, and of one that begins with a star.
FindNumbers(S, howMany) == ReturnNumbers(S, howMany, SNs, FALSE)
FindNumbersStar(S, howMany) == ReturnNumbers(Reverse(S), howMany, ReverseSNs, TRUE)

-----------------------------------------------------------------------------
SerialInit == SNs = <<>> /\ ReverseSNs = <<>>

SerialNext == \E n \in Numbers : AddSerialNumber(n) \/ DeleteSerialNumber(n)

SerialSpec == SerialInit /\ [][SerialNext]_svars

-----------------------------------------------------------------------------
Patterns == UNION {[1..k -> 0..(Base - 1)] : k \in 1..Digits}

\* At most howMany elements of a set, the first in an order.
FirstOf(set, howMany, Before(_, _)) ==
    LET all == SetToSortSeq(set, Before)
    IN  SubSeq(all, 1, IF howMany < Len(all) THEN howMany ELSE Len(all))

\* A search by prefix of a cache that is not empty returns the smallest howMany
\* numbers that begin with the pattern, a search with a star those that end with it,
\* in the order of the digits read backwards; a full serial number is found if and
\* only if it is cached.  The two vectors, the reversal of 16 digits to keep 12 and
\* the padded lower bound of SerialNumberCache come to exactly that.
SearchesExact == SNs # <<>> =>
    \A S \in Patterns, howMany \in 1..3 :
        /\ FindNumbers(S, howMany) =
             FirstOf({n \in Range(SNs) : IsPrefix(S, IntToSerialNumber(n))}, howMany,
                     LAMBDA a, b : a < b)
        /\ FindNumbersStar(S, howMany) =
             FirstOf({n \in Range(SNs) : IsSuffix(S, IntToSerialNumber(n))}, howMany,
                     LAMBDA a, b : Stoull(Reverse(IntToSerialNumber(a))) <
                                   Stoull(Reverse(IntToSerialNumber(b))))
=============================================================================
