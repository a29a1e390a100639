------------------------------- MODULE MCFiles -------------------------------
(* Small instances of SharedHistory, DavTree, Vectors and EmbedWorker.  They share no variable: a          *)
(* behaviour of this module is one of one of them (part), fair as Vectors is, and the others stay where    *)
(* they began.  Vectors has two parts: in "vectors" two processes embed and none searches, in "searches"   *)
(* one embeds and two threads of the other search, and nothing fails.                                      *)
EXTENDS SharedHistory, DavTree, Vectors, EmbedWorker

VARIABLE part

MCFile == {<<"a", "/", "x">>, <<"a", "/", "y">>, <<"a", "b", "/", "x">>, <<"c", "/", "x">>, <<"c", "/", "y">>}
MCFolder == {<<"a", "/">>, <<"c", "/">>}

CONSTANTS t1, t2, p2
MCRunsIn == [t \in {t1, t2} |-> p2]
PartOfVectors ==
  \/ part = "vectors" /\ \A t \in Searcher : ~Loads(t)'
  \/ part = "searches" /\ embedding'[p2] = embedding[p2] /\ faults' = faults

(* One beginning of each, for the behaviours of the others.  Nothing that is fair is enabled in the one of *)
(* Vectors, so that its fairness asks nothing of the others.                                               *)
DavAside == DavInit /\ \A k \in Path : stored[k] = Missing
EmbedAside == EmbedInit /\ \A c \in Client : wants[c] = 1

MCInit ==
  \/ part = "history" /\ HistoryInit /\ DavAside /\ VectorsInit /\ EmbedAside
  \/ part = "dav" /\ DavInit /\ HistoryInit /\ VectorsInit /\ EmbedAside
  \/ part \in {"vectors", "searches"} /\ VectorsInit /\ HistoryInit /\ DavAside /\ EmbedAside
  \/ part = "worker" /\ EmbedInit /\ HistoryInit /\ DavAside /\ VectorsInit

MCNext ==
  \/ part = "history" /\ HistoryNext /\ UNCHANGED <<part, davVars, vectorsVars, embedVars>>
  \/ part = "dav" /\ DavNext /\ UNCHANGED <<part, historyVars, vectorsVars, embedVars>>
  \/ VectorsNext /\ PartOfVectors /\ UNCHANGED <<part, historyVars, davVars, embedVars>>
  \/ part = "worker" /\ EmbedNext /\ UNCHANGED <<part, historyVars, davVars, vectorsVars>>

MCSpec == MCInit /\ [][MCNext]_<<part, historyVars, davVars, vectorsVars, embedVars>> /\ VectorsFairness
=============================================================================
