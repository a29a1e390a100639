------------------------------ MODULE ChangeLog ------------------------------
(* The page that changelog.py keeps of a repo's month: a note in which a block between two markers is     *)
(* written anew from the log, the commits and the notes of the month, by the stop hooks of several        *)
(* machines and by commands, while people write their own text around it.  Hooks and commands are         *)
(* processes of their own: the lock under which a local folder compares and writes is no other's.         *)
EXTENDS Naturals, Sequences, FiniteSets, SequencesExt

CONSTANTS
  Writer,                       \* stop hooks and commands at work
  MonthLength,                  \* days in the month
  PreviousMonthGraceDays,
  RewriteRetries,
  LastDate, MaxNews, MaxHandEdits, MaxWrites      \* bounds

ASSUME ChangeLogAssumption ==
  /\ MonthLength \in Nat \ {0} /\ LastDate \in Nat \ {0}
  /\ PreviousMonthGraceDays \in Nat /\ RewriteRetries \in Nat
  /\ MaxNews \in Nat /\ MaxHandEdits \in Nat /\ MaxWrites \in Nat

VARIABLES
  inOneRequest,   \* the storage compares and writes in one request, as a bucket does and a local folder does not
  date,      \* days since the month began
  news,      \* how much the log, the commits and the notes of the month have to say
  page,      \* the note : [there, body, status]
  writers,   \* [step, block, seen, tries, crossed]; seen: the page it read, or is about to write
  edits, writes,
  above, below,   \* what people wrote above and below the block, except between a compare and its write
  broken,    \* whether somebody took a marker away
  newest,    \* the latest block the page has had
  crossed    \* whether it was last written by one that another had overtaken
changeLogVars == <<inOneRequest, date, news, page, writers, edits, writes, above, below, broken, newest, crossed>>
beside == <<inOneRequest, above, below, broken, newest, crossed>>

PeriodOver(d) == d > MonthLength
PeriodDue(d) == d <= MonthLength + PreviousMonthGraceDays

(* A body is a sequence of the two markers, the generated text, and people's paragraphs.                  *)
Piece(is, n, commits) == [is |-> is, n |-> n, commits |-> commits]
StartMarker == Piece("start", 0, FALSE)
EndMarker == Piece("end", 0, FALSE)
Prose(n) == Piece("prose", n, FALSE)
GeneratedBlock(commits) == <<StartMarker, Piece("text", news, commits), EndMarker>>

\* Mutant: what stands below the block goes with it.
SpliceToTheEnd(body, block) ==
  LET start == SelectInSeq(body, LAMBDA x : x = StartMarker)
      end == SelectInSeq(body, LAMBDA x : x = EndMarker) IN
  IF start # 0 /\ end > start THEN SubSeq(body, 1, start - 1) \o block ELSE body \o block

Splice(body, block) ==
  LET start == SelectInSeq(body, LAMBDA x : x = StartMarker)
      end == SelectInSeq(body, LAMBDA x : x = EndMarker) IN
  IF start # 0 /\ end > start THEN SubSeq(body, 1, start - 1) \o block \o SubSeq(body, end + 1, Len(body))
  ELSE body \o block

NewPage == [there |-> FALSE, body |-> << >>, status |-> "active"]
Resting == [step |-> "rest", block |-> << >>, seen |-> NewPage, tries |-> 0, crossed |-> FALSE]

ChangeLogInit ==
  /\ inOneRequest \in BOOLEAN /\ date = 1 /\ news = 0 /\ page = NewPage
  /\ writers = [w \in Writer |-> Resting] /\ edits = 0 /\ writes = 0
  /\ above = {} /\ below = {} /\ broken = FALSE /\ newest = 0 /\ crossed = FALSE

DateTurns == date < LastDate /\ date' = date + 1 /\ UNCHANGED <<news, page, writers, edits, writes, beside>>
News == news < MaxNews /\ news' = news + 1 /\ UNCHANGED <<date, page, writers, edits, writes, beside>>

(* People write above and below the block, or take a marker away.  What they write is told apart by       *)
(* whether a writer of a local folder has compared the page and not written it yet.                       *)
HandEdit ==
  /\ edits < MaxHandEdits /\ edits' = edits + 1 /\ page.there
  /\ UNCHANGED <<inOneRequest, date, news, writers, writes, newest, crossed>>
AboutToWrite == \E w \in Writer : writers[w].step = "write"
Told(prose) == IF AboutToWrite THEN {} ELSE {prose}
WriteAbove ==
  /\ HandEdit /\ page' = [page EXCEPT !.body = <<Prose(edits)>> \o @]
  /\ above' = above \cup Told(Prose(edits)) /\ UNCHANGED <<below, broken>>
WriteBelow ==
  /\ HandEdit /\ page' = [page EXCEPT !.body = Append(@, Prose(edits))]
  /\ below' = below \cup Told(Prose(edits)) /\ UNCHANGED <<above, broken>>
TakeMarker == \E mark \in {StartMarker, EndMarker} :
  /\ HandEdit /\ Contains(page.body, mark) /\ page' = [page EXCEPT !.body = RemoveFirst(@, mark)]
  /\ broken' = TRUE /\ UNCHANGED <<above, below>>

WriterGoes(w, changes) == writers' = [writers EXCEPT ![w] = changes]

(* write_page: the block is made once, from the commits the caller has or without any.  A hook writes the *)
(* page while its month is due, a command whenever it is told to.                                         *)
WriteBegins(w) == \E hook \in BOOLEAN, commits \in BOOLEAN :
  /\ writers[w].step = "rest" /\ writes < MaxWrites /\ writes' = writes + 1
  /\ hook => PeriodDue(date) /\ commits
  /\ WriterGoes(w, [Resting EXCEPT !.step = "read", !.block = GeneratedBlock(commits)])
  /\ UNCHANGED <<date, news, page, edits, beside>>

(* rewrite: read, and write over what was read; on a conflict again, a few times.                        *)
ReadPage(w) ==
  /\ writers[w].step = "read"
  /\ WriterGoes(w, [writers[w] EXCEPT !.step = "put", !.seen = page])
  /\ UNCHANGED <<date, news, page, edits, writes, beside>>

Paged(seen, block) ==
  [there |-> TRUE, body |-> Splice(seen.body, block), status |-> IF PeriodOver(date) THEN "complete" ELSE "active"]
NothingNew(seen, block) == seen.there /\ Splice(seen.body, block) = seen.body

Puts(w, paged) ==
  /\ page' = paged
  /\ writers' = [v \in Writer |->
       IF v = w THEN Resting ELSE [writers[v] EXCEPT !.crossed = @ \/ writers[v].step # "rest"]]
  /\ crossed' = writers[w].crossed
  /\ newest' = LET n == writers[w].block[2].n IN IF n > newest THEN n ELSE newest

(* Where nothing is new nothing is written.  A bucket compares and writes in one request; on a local      *)
(* folder the file is read and compared, and written afterwards.                                          *)
PutPage(w) ==
  LET seen == writers[w].seen
      paged == Paged(seen, writers[w].block)
      idle == NothingNew(seen, writers[w].block) IN
  /\ writers[w].step = "put"
  /\ \/ idle /\ WriterGoes(w, Resting) /\ UNCHANGED <<page, newest, crossed>>
     \/ ~idle /\ page = seen /\ inOneRequest /\ Puts(w, paged)
     \/ /\ ~idle /\ page = seen /\ ~inOneRequest
        /\ WriterGoes(w, [writers[w] EXCEPT !.step = "write", !.seen = paged])
        /\ UNCHANGED <<page, newest, crossed>>
     \/ /\ ~idle /\ page # seen
        /\ WriterGoes(w, IF writers[w].tries = RewriteRetries THEN Resting
                         ELSE [writers[w] EXCEPT !.step = "read", !.tries = @ + 1])
        /\ UNCHANGED <<page, newest, crossed>>
  /\ UNCHANGED <<inOneRequest, date, news, edits, writes, above, below, broken>>
WriteFile(w) ==
  /\ writers[w].step = "write" /\ Puts(w, writers[w].seen)
  /\ UNCHANGED <<inOneRequest, date, news, edits, writes, above, below, broken>>

ChangeLogNext ==
  \/ DateTurns \/ News \/ WriteAbove \/ WriteBelow \/ TakeMarker
  \/ \E w \in Writer : WriteBegins(w) \/ ReadPage(w) \/ PutPage(w) \/ WriteFile(w)
ChangeLogSpec == ChangeLogInit /\ [][ChangeLogNext]_changeLogVars

Count(body, is) == Cardinality({i \in DOMAIN body : body[i].is = is})

(* docs/reference/command-line.md: what people wrote above the markers is left alone, whoever rewrites    *)
(* the block, and what they wrote below it as long as nobody took a marker away.  On a local folder what  *)
(* they write after a writer compared the page and before it wrote it may go; nothing older does.         *)
ProseKept == above \cup (IF broken THEN {} ELSE below) \subseteq ToSet(page.body)

(* The page has one block, however many wrote it at once.                                                *)
OneBlock == page.there /\ ~broken => \A is \in {"start", "text", "end"} : Count(page.body, is) = 1

(* An older block takes a newer one's place only if the page was written meanwhile by another.           *)
OlderOnlyWhenOvertaken ==
  page.there /\ ~broken /\ ~crossed =>
    \E i \in DOMAIN page.body : page.body[i].is = "text" /\ page.body[i].n = newest

(* What the writers of a page leave on it (changelog.py).                                                *)
PagesInv == ProseKept /\ OneBlock /\ OlderOnlyWhenOvertaken
=============================================================================
