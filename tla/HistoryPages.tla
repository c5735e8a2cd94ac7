---------------------------- MODULE HistoryPages ----------------------------
(* A Session's history as the Web client keeps it: pages of journal        *)
(* records, the newest page first, each page ascending by sequence number  *)
(* (frontend/src/lib/timeline/history.ts, frontend/src/api/queries.ts), and *)
(* the read of one page by the server (journal/reader.py).                 *)
(*                                                                         *)
(* A journal is a sequence of records whose i-th record has seq = i; a     *)
(* record has a seq, a type, the Run it belongs to and one payload, "of".  *)
EXTENDS Integers, Sequences, FiniteSets, SequencesExt, FiniteSetsExt

(* One record per sequence number, ascending.                              *)
BySeq(records) ==
  LET seqs == {r.seq : r \in records}
  IN  [i \in 1..Cardinality(seqs) |->
         CHOOSE r \in records : Cardinality({s \in seqs : s < r.seq}) = i - 1]

(* The answer of GET /history: oldest_seq and newest_seq are the ends of   *)
(* the page, 0 standing for null.                                          *)
Page(records, hasOlder) == [records |-> records, hasOlder |-> hasOlder]
OldestSeq(page) == IF page.records = <<>> THEN 0 ELSE Head(page.records).seq
NewestSeq(page) == IF page.records = <<>> THEN 0 ELSE Last(page.records).seq

(* The server reads the last "limit" records below "before" (0: no bound). *)
(* The records ascend, so those below are its first n.                     *)
ReadPage(journal, before, limit) ==
  LET n == Cardinality({i \in DOMAIN journal : before = 0 \/ journal[i].seq < before})
      first == Max({1, n - limit + 1})
  IN  Page(SubSeq(journal, first, n), first > 1)

NoHistory == <<>>
LoadedRecords(pages) == UNION {ToSet(pages[i].records) : i \in DOMAIN pages}
HistoryNewestSeq(pages) == Max({0} \cup {NewestSeq(pages[i]) : i \in DOMAIN pages})

(* getNextPageParam: where the next older page ends, 0 when there is none. *)
NextPageParam(pages) ==
  IF pages # NoHistory /\ Last(pages).hasOlder THEN OldestSeq(Last(pages)) ELSE 0

FetchNextPage(pages, journal, size) ==
  Append(pages, ReadPage(journal, NextPageParam(pages), size))

(* A refetch of the query reads every loaded page again, each one where    *)
(* the page before it now begins, and stops where nothing is older.        *)
RefetchPages(pages, journal, size) ==
  FoldLeft(LAMBDA done, i : IF NextPageParam(done) = 0 THEN done ELSE FetchNextPage(done, journal, size),
           <<ReadPage(journal, 0, size)>>, [i \in 1..(Len(pages) - 1) |-> i])

(* Mutant: loaded pages are left as they are. *)
KeepLoadedPages(current, latest, size) == IF current = NoHistory THEN <<latest>> ELSE current

(* Mutant: the latest page is put before the loaded ones. *)
PrependLatest(current, latest, size) == <<latest>> \o current

(* mergeHistoryPages: the loaded records and the fresh latest page are cut *)
(* into pages anew, from the newest record down; whether anything is older *)
(* than the last page is what the oldest loaded page said of itself.       *)
MergeHistoryPages(current, latest, size) ==
  LET records == BySeq(LoadedRecords(current) \cup ToSet(latest.records))
      n == Len(records)
      boundary == IF current = NoHistory THEN latest.hasOlder ELSE Last(current).hasOlder
      count == Max({1, (n + size - 1) \div size})
      Cut(i) == LET start == Max({0, n - i * size})
                IN  Page(SubSeq(records, start + 1, n - (i - 1) * size),
                         IF i = count THEN boundary ELSE start > 0)
  IN  [i \in 1..count |-> Cut(i)]
=============================================================================
