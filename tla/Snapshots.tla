----------------------------- MODULE Snapshots -----------------------------
(***************************************************************************)
(* How the backtest reads a day (backtest/snapshots.py): the book file and *)
(* the timing file of the exchange simulator are joined by sequence        *)
(* number, and the join is refused unless it is a stream of sane quotes.   *)
(* A file is the sequence of its rows, in whatever order they come.        *)
(***************************************************************************)
EXTENDS Integers, Sequences, SequencesExt, FiniteSets

Seqs(file) == {file[i].seq : i \in DOMAIN file}
NoDuplicates(file) == Cardinality(Seqs(file)) = Len(file)
RowOf(file, seq) == file[SelectInSeq(file, LAMBDA row : row.seq = seq)]

\* The outer join, sorted by sequence number; both files have the same ones.
Join(book, timing) ==
  LET seqs  == Seqs(book)
      first == CHOOSE s \in seqs : \A t \in seqs : s <= t
  IN  [i \in 1 .. Cardinality(seqs) |->
         LET row == RowOf(book, first + i - 1)
         IN  [seq |-> row.seq, bid |-> row.bid, ask |-> row.ask,
              time |-> RowOf(timing, row.seq).time]]

Contiguous(seqs) == \A s \in seqs : \A t \in seqs : s .. t \subseteq seqs
SaneQuote(row) == row.bid > 0 /\ row.ask > 0 /\ row.ask >= row.bid

\* load_snapshots raises no ValueError.
Loadable(book, timing) ==
  /\ NoDuplicates(book) /\ NoDuplicates(timing)
  /\ Seqs(book) = Seqs(timing) /\ Seqs(book) # {} /\ Contiguous(Seqs(book))
  /\ LET rows == Join(book, timing) IN
       /\ \A i \in DOMAIN rows : SaneQuote(rows[i])
       /\ \A i \in 2 .. Len(rows) : rows[i - 1].time <= rows[i].time
============================================================================
