----------------------------- MODULE BatchSplit -----------------------------
(***************************************************************************)
(* How a transmission cuts what it has collected into calls of at most     *)
(* maxApiSize bytes (pkg/libtrace/transmission/transmission.go).  The      *)
(* three functions SendTraceBatches, SendLogTraceBatches and               *)
(* sendLogBatches are one loop over spans, spans for a peer and log        *)
(* records; size is the function that gives an item's proto.Size.          *)
(***************************************************************************)
EXTENDS Integers, Sequences, Functions

CONSTANT maxApiSize

ASSUME SplitAssumption == maxApiSize \in Nat

SizeOf(b, size) ==
    LET sum[i \in 0..Len(b)] == IF i = 0 THEN 0 ELSE sum[i - 1] + size[b[i]]
    IN sum[Len(b)]

\* The sequences of ss, one after the other.
Flattened(ss) ==
    LET flat[i \in 0..Len(ss)] == IF i = 0 THEN <<>> ELSE flat[i - 1] \o ss[i]
    IN flat[Len(ss)]

\* What a list has of the set S, in order.
Kept(list, S) ==
    LET kept[i \in 0..Len(list)] ==
            IF i = 0 THEN <<>>
            ELSE IF list[i] \in S THEN Append(kept[i - 1], list[i]) ELSE kept[i - 1]
    IN kept[Len(list)]

\* What fits into a call at all, in order.
Fitting(list, size) == Kept(list, {x \in DOMAIN size : size[x] <= maxApiSize})

NoBatch == [batches |-> <<>>, items |-> <<>>, batchSize |-> 0]

InCalls(cut) == UNION {Range(b) : b \in Range(cut.batches)}

\* The batch being filled becomes a call, and an empty one takes its place.
Close(acc) ==
    [batches |-> Append(acc.batches, acc.items), items |-> <<>>, batchSize |-> 0]

Put(acc, x, size) ==
    [batches |-> acc.batches, items |-> Append(acc.items, x),
     batchSize |-> acc.batchSize + size[x]]

\* Variant: the item that did not fit is skipped.
TurnSkips(acc, x, last, size) ==
    IF size[x] > maxApiSize THEN acc
    ELSE LET full == size[x] + acc.batchSize > maxApiSize
             put == IF full THEN Close(acc) ELSE Put(acc, x, size)
         IN IF last THEN Close(put) ELSE put

\* One turn of the loop.  An item too large for any call is skipped, and with
\* it the test for the last item.
Turn(acc, x, last, size) ==
    IF size[x] > maxApiSize THEN acc
    ELSE LET full == size[x] + acc.batchSize > maxApiSize
             put == Put(IF full THEN Close(acc) ELSE acc, x, size)
         IN IF last THEN Close(put) ELSE put

\* batches are the calls to make, items what the loop leaves behind.  (Binding
\* acc in a set lets TLC evaluate it once.)
SendTraceBatches(list, size) ==
    LET loop[i \in 0..Len(list)] ==
            IF i = 0 THEN NoBatch
            ELSE CHOOSE next \in {Turn(acc, list[i], i = Len(list), size) :
                                    acc \in {loop[i - 1]}} : TRUE
    IN loop[Len(list)]
=============================================================================
