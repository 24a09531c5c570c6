------------------------------ MODULE Condense ------------------------------
(***************************************************************************)
(* How the client packs instructions into transactions (libraries/rust/    *)
(* solana-client/src/transaction.rs): condense and condense_fast join      *)
(* groups of instructions into as few transactions as possible.  How many  *)
(* groups fit is found by a search that guesses from the size of the last  *)
(* attempt, one attempt per step of the model.                             *)
(*                                                                         *)
(* An instruction is a record of its data size and the accounts it names.  *)
(* A TransactionBuilder is the sequence of its instructions.               *)
(***************************************************************************)
EXTENDS Integers, FiniteSets, SequencesExt, Sums

CONSTANTS
  Builders,       \* builders a caller may hand over
  MaxBuilders,    \* bound: length of the list handed over
  HEADER_SIZE,    \* bytes of an empty transaction
  ACCOUNT_SIZE,   \* bytes for each account named in it
  MAX_TX_SIZE

ASSUME CondenseAssumption ==
  /\ MaxBuilders \in Nat /\ HEADER_SIZE \in Nat \ {0} /\ ACCOUNT_SIZE \in Nat /\ MAX_TX_SIZE \in Nat
  /\ \A b \in Builders : b \in Seq(ToSet(b)) /\ \A i \in DOMAIN b : b[i].data \in Nat /\ IsFiniteSet(b[i].accounts)

VARIABLES
  txs,          \* the list handed over
  right,        \* condense (TRUE) or condense_fast (FALSE)
  shrink_me,    \* what is still to be packed, in the order of condense_left
  condensed,    \* transactions made so far
  search        \* variables of find_first_condensed, or Idle

condenseVars == <<txs, right, shrink_me, condensed, search>>

Idle == [try_len |-> 0, bounds |-> <<0, 0>>]

InitCondense ==
  /\ txs = << >> /\ right = FALSE /\ shrink_me = << >> /\ condensed = << >> /\ search = Idle

-----------------------------------------------------------------------------
ijoin(builders) == FlattenSeq(builders)

deep_reverse(builders) == [i \in DOMAIN builders |-> Reverse(Reverse(builders)[i])]

\* length of the transaction in base64: an account named by several instructions is in it once
fake_encode(builder) ==
  LET ixs == {builder[i] : i \in DOMAIN builder}
      bytes == HEADER_SIZE + ACCOUNT_SIZE * Cardinality(UNION {ix.accounts : ix \in ixs})
                           + SumOver([i \in DOMAIN builder |-> builder[i].data], DOMAIN builder)
  IN  4 * ((bytes + 2) \div 3)

\* a * b / c rounded to the nearest integer
Rounded(a, b, c) == (2 * a * b + c) \div (2 * c)

Within(n, bounds) ==
  LET low == IF n < bounds[1] THEN bounds[1] ELSE n
  IN  IF low > bounds[2] THEN bounds[2] ELSE low

-----------------------------------------------------------------------------
NewSearch(builders) ==
  IF builders = << >> THEN Idle
  ELSE [try_len |-> Len(builders), bounds |-> <<1, Len(builders)>>]

condense(list, to_the_right) ==
  /\ txs = << >>
  /\ txs' = list /\ right' = to_the_right
  /\ shrink_me' = IF to_the_right THEN deep_reverse(list) ELSE list
  /\ condensed' = << >>
  /\ search' = NewSearch(shrink_me')

\* Slip: an attempt that fits is taken for the largest that does.
Narrowed_first(s, size) ==
  IF size > MAX_TX_SIZE THEN <<s.bounds[1], s.try_len - 1>> ELSE <<s.try_len, s.try_len>>

Narrowed(s, size) ==
  IF size > MAX_TX_SIZE THEN <<s.bounds[1], s.try_len - 1>> ELSE <<s.try_len, s.bounds[2]>>

\* One attempt of find_first_condensed.  The guess is the share of the attempt that would
\* have filled a transaction; if it does not move, the middle of the bounds is next.
find_first_condensed ==
  /\ shrink_me # << >>
  /\ search.bounds[1] # search.bounds[2]
  /\ LET size == fake_encode(ijoin(SubSeq(shrink_me, 1, search.try_len)))
         bounds == Narrowed(search, size)
         maybe_try == Within(Rounded(MAX_TX_SIZE, search.try_len, size), bounds)
     IN  search' = [bounds |-> bounds,
                    try_len |-> IF maybe_try = search.try_len
                                  THEN (bounds[1] + bounds[2] + 1) \div 2
                                  ELSE maybe_try]
  /\ UNCHANGED <<txs, right, shrink_me, condensed>>

\* The search is over: the groups found are joined, unless there is no instruction in
\* them, and the rest is searched.  At the end condense reverses the result.
condense_left ==
  /\ shrink_me # << >>
  /\ search.bounds[1] = search.bounds[2]
  /\ LET next_idx == search.bounds[1]
         next_tx == ijoin(SubSeq(shrink_me, 1, next_idx))
         made == IF next_tx = << >> THEN condensed ELSE Append(condensed, next_tx)
     IN  /\ shrink_me' = SubSeq(shrink_me, next_idx + 1, Len(shrink_me))
         /\ condensed' = IF shrink_me' = << >> /\ right THEN deep_reverse(made) ELSE made
         /\ search' = NewSearch(shrink_me')
  /\ UNCHANGED <<txs, right>>

\* The caller has the answer.
Answered == shrink_me = << >> /\ txs # << >> /\ txs' = << >> /\ condensed' = << >>
            /\ UNCHANGED <<right, shrink_me, search>>

CondenseNext ==
  \/ \E n \in 0 .. MaxBuilders : \E list \in [1 .. n -> Builders], to_the_right \in BOOLEAN :
       condense(list, to_the_right)
  \/ find_first_condensed
  \/ condense_left
  \/ Answered

CondenseSpec ==
  /\ InitCondense /\ [][CondenseNext]_condenseVars
  /\ WF_condenseVars(find_first_condensed) /\ WF_condenseVars(condense_left)

-----------------------------------------------------------------------------
(* A reference: all ways to put the groups of a list into transactions.   *)

FitsAlone(builder) == fake_encode(builder) <= MAX_TX_SIZE

\* Each group begins a transaction or is joined to the last one; an empty group is nowhere.
Ways(list) ==
  LET ways[k \in 0 .. Len(list)] ==
        IF k = 0 THEN {<< >>}
        ELSE IF list[k] = << >> THEN ways[k - 1]
        ELSE {Append(w, list[k]) : w \in ways[k - 1]}
               \cup {Append(Front(w), Last(w) \o list[k]) : w \in ways[k - 1] \ {<< >>}}
  IN  ways[Len(list)]

FittingWays(list) == {w \in Ways(list) : \A k \in DOMAIN w : FitsAlone(w[k])}

\* "Combines all the instructions within each of the TransactionBuilders into the
\* smallest possible number of TransactionBuilders" (transaction.rs:228-238).  The search
\* jumps by guesses, joined groups share accounts, and condense works on everything
\* reversed: when every group fits alone, the answer is the list cut at group boundaries,
\* in order, every transaction fits, no other way to cut it makes fewer, and none has
\* more in the last transaction (in the first, for condense_fast).
CondensedIsBest ==
  (shrink_me = << >> /\ txs # << >>) =>
    LET edge(w) == IF w = << >> THEN 0 ELSE IF right THEN Len(w[Len(w)]) ELSE Len(w[1])
    IN  (\A i \in DOMAIN txs : FitsAlone(txs[i])) =>
          /\ condensed \in FittingWays(txs)
          /\ \A w \in FittingWays(txs) : Len(condensed) <= Len(w) /\ edge(w) <= edge(condensed)

\* "if the approximated search leads to an infinite loop, fall back to a binary search"
\* (transaction.rs:321): every request is answered.
CondenseAnswers == shrink_me # << >> ~> shrink_me = << >>

=============================================================================
