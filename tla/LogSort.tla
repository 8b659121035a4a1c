------------------------------ MODULE LogSort ------------------------------
(***************************************************************************)
(* How EventStore.readPage sorts the records of a `logs` page in bounded   *)
(* memory: chunks of records are sorted and written to files, the files    *)
(* are merged FanIn at a time until FanIn remain, and the page is taken    *)
(* from the merge of those.  A file is the sequence of its records.        *)
(***************************************************************************)
EXTENDS Naturals, Sequences, SequencesExt

CONSTANTS
    Earlier(_, _), \* the order of the records: compareEvents(l, r) < 0
    SortChunk,     \* EventStoreOptions.sortChunkSize
    FanIn          \* MERGE_FAN_IN

\* The pieces of s of the given size, the last one what remains.
Pieces(s, size) ==
    [p \in 1 .. (Len(s) + size - 1) \div size |->
        SubSeq(s, (p - 1) * size + 1, Min({p * size, Len(s)}))]

\* events.sort(compareEvents): the records in an order none of them contradicts.
Sorted(records) ==
    LET place == CHOOSE p \in Bijection(DOMAIN records, DOMAIN records) :
            \A i, j \in DOMAIN records : i < j => ~Earlier(records[p[j]], records[p[i]])
    IN [i \in DOMAIN records |-> records[place[i]]]

\* writeSortedChunk for every full chunk, and flushChunk for the last.
SortedChunks(records) ==
    LET chunks == Pieces(records, SortChunk)
    IN [c \in DOMAIN chunks |-> Sorted(chunks[c])]

\* The reader whose current record is the earliest; of equal ones the first.
NextReader(files, at) ==
    LET live == {f \in DOMAIN files : at[f] <= Len(files[f])}
        current(f) == files[f][at[f]]
    IN CHOOSE f \in live : \A g \in live \ {f} :
           /\ ~Earlier(current(g), current(f))
           /\ g < f => Earlier(current(f), current(g))

\* The readers when they are opened, each at its first record, and when the next
\* record has been taken.
Opened(files) == [at |-> [f \in DOMAIN files |-> 1], out |-> <<>>]
Take(files, readers) ==
    LET next == NextReader(files, readers.at)
    IN [at |-> [readers.at EXCEPT ![next] = @ + 1],
        out |-> Append(readers.out, files[next][readers.at[next]])]

\* mergeSortedFiles and readMergedPage: take from the readers until all are done.
Merge(files) ==
    LET records == Len(FlattenSeq(files))
        taken[n \in 0 .. records] ==
            IF n = 0 THEN Opened(files) ELSE Take(files, taken[n - 1])
    IN taken[records].out

\* A round merges groups of FanIn files, if there are too many to open.
MergeGroups(files) ==
    IF Len(files) <= FanIn THEN files
    ELSE LET groups == Pieces(files, FanIn) IN [g \in DOMAIN groups |-> Merge(groups[g])]

MergeRounds(files) ==
    LET round[n \in 0 .. Len(files)] ==
            IF n = 0 THEN files ELSE MergeGroups(round[n - 1])
    IN round[Len(files)]

\* The page of at most limit records after the first offset.
SortedPage(records, offset, limit) ==
    LET merged == Merge(MergeRounds(SortedChunks(records)))
    IN SubSeq(merged, offset + 1, Min({offset + limit, Len(merged)}))
=============================================================================
