------------------------------ MODULE QueryLog ------------------------------
(***************************************************************************)
(* The query log (internal/querylog/querylog.go) with persistence on: every *)
(* request adds an entry to a ring buffer under l.mu, and after the lock   *)
(* is released hands it to a writer goroutine through a bounded queue, or  *)
(* writes the file itself when the queue is full.  Close ends the writer.  *)
(* A reload closes the logger and makes another on the same file; requests *)
(* that are still on their way keep the old one.  A crash loses all but    *)
(* the file.                                                               *)
(*                                                                         *)
(* All lines are taken to be of one length, so the size limit is a number  *)
(* of lines; what is left of a line that was cut or written in part counts *)
(* as one.  An operation under fileMu is one action.                       *)
(***************************************************************************)
EXTENDS Naturals, SequencesExt

CONSTANTS Clients,     \* clients, each with one request at a time
          MaxHistory,  \* maxHistory
          QueueSize,   \* capacity of fileQueue, 64 to 1024
          MaxLines,    \* lines that fit into maxSizeMB
          MaxLogs,     \* bound: entries logged
          MaxLoggers,  \* bound: loggers made
          MaxEvents    \* bound: crashes, file operations that fail, and clearings
                       \* of the log

ASSUME QueryLogAssumption ==
    /\ MaxHistory \in Nat \ {0} /\ QueueSize \in Nat \ {0}
    /\ MaxLines \in Nat \ {0, 1}
    /\ MaxLogs \in Nat /\ MaxLoggers \in Nat \ {0} /\ MaxEvents \in Nat

VARIABLES gen,       \* the number of the current logger
          nextID,    \* its fields: nextID,
          logs,      \* logs, as far as it was written,
          logsStart, \* logsStart, counted from 0,
          top,       \* stats.TopClients,
          count,     \* persistedLogCount,
          queue,     \* queue[g]: the fileQueue of logger g
          writer,    \* where the writer goroutine is
          hand,      \* the entry it has taken from the queue
          closer,    \* where Close is
          file,      \* the lines of the file,
          torn,      \* its last line was written in part: it has no newline
          adder,     \* adder[c]: where a goroutine is in AddLog, its entry
          due,       \* history: entries of the current logger that are to be
                     \* in the file by the time Close returns
          events,    \* crashes, failed file operations and clearings so far
          counted,   \* history: the logger has read the whole file, or pruned
                     \* it, and no other logger touched the file since
          mixed      \* history: a logger began without reading the whole file,
                     \* or an old one touched the file after a reload

memory == <<nextID, logs, logsStart, top>>
disk   == <<file, torn, count, due, events, counted, mixed>>
vars   == <<gen, memory, queue, writer, hand, closer, disk, adder>>

Loggers  == 1 .. MaxLoggers
\* An entry in memory, and what the properties tell apart of it on disk.
Records  == [id : 1 .. MaxLogs, client : Clients]
Entries  == [id : 1 .. MaxLogs, gen : Loggers]
NoEntry  == [id |-> 0]
\* A line that does not parse: cut, written in part, or two in one.
Garbled  == [id |-> 0, gen |-> 0]
Lines(f) == {f[i] : i \in 1 .. Len(f)}

TypeOK ==
    /\ gen \in Loggers /\ nextID \in 1 .. MaxLogs + 1
    /\ logs \in Seq(Records) /\ Len(logs) <= MaxHistory
    /\ logsStart \in 0 .. MaxHistory - 1
    /\ top \in [Clients -> Nat] /\ count \in Nat
    /\ queue \in [Loggers -> Seq(Entries)]
    /\ \A g \in Loggers : Len(queue[g]) <= QueueSize
    /\ writer \in {"select", "write", "drain", "flush", "ended"}
    /\ hand \in Entries \cup {NoEntry}
    /\ closer \in {"open", "closing", "closed"}
    /\ file \in Seq(Entries \cup {Garbled}) /\ torn \in BOOLEAN
    /\ torn => Len(file) > 0
    /\ adder \in [Clients -> [pc : {"idle", "check", "offer", "append"},
                             entry : Entries \cup {NoEntry}]]
    /\ due \subseteq Entries /\ events \in 0 .. MaxEvents
    /\ counted \in BOOLEAN /\ mixed \in BOOLEAN

Idle == [pc |-> "idle", entry |-> NoEntry]

Init ==
    /\ gen = 1 /\ nextID = 1 /\ logs = << >> /\ logsStart = 0
    /\ top = [c \in Clients |-> 0] /\ count = 0
    /\ queue = [g \in Loggers |-> << >>]
    /\ writer = "select" /\ hand = NoEntry /\ closer = "open"
    /\ file = << >> /\ torn = FALSE /\ adder = [c \in Clients |-> Idle]
    /\ due = {} /\ events = 0 /\ counted = TRUE /\ mixed = FALSE

-----------------------------------------------------------------------------
(* AddLog: the part under l.mu.                                            *)

\* logAt(i): the entry number i from the oldest, counted from 0.
LogAt(i) == logs[((logsStart + i) % Len(logs)) + 1]

\* The counters with r in, and what it overwrites out.
Counted(r) ==
    [c \in Clients |->
        top[c] + (IF c = r.client THEN 1 ELSE 0)
               - (IF Len(logs) = MaxHistory /\ c = LogAt(0).client THEN 1 ELSE 0)]

\* Mutant: the start of the ring stays.
AddToMemory_NoAdvance(r) ==
    /\ top' = Counted(r)
    /\ IF Len(logs) < MaxHistory
       THEN logs' = Append(logs, r) /\ UNCHANGED logsStart
       ELSE logs' = [logs EXCEPT ![1] = r] /\ UNCHANGED logsStart

\* addToMemory: the ring overwrites its oldest entry once it is full.
AddToMemory(r) ==
    /\ top' = Counted(r)
    /\ IF Len(logs) < MaxHistory
       THEN logs' = Append(logs, r) /\ UNCHANGED logsStart
       ELSE /\ logs' = [logs EXCEPT ![logsStart + 1] = r]
            /\ logsStart' = (logsStart + 1) % Len(logs)

AddLog(c) ==
    LET e == [id |-> nextID, gen |-> gen] IN
    /\ adder[c].pc = "idle" /\ closer = "open" /\ nextID <= MaxLogs
    /\ nextID' = nextID + 1
    /\ AddToMemory([id |-> nextID, client |-> c])
    /\ adder' = [adder EXCEPT ![c] = [pc |-> "check", entry |-> e]]
    /\ due' = due \cup {e}
    /\ UNCHANGED <<gen, queue, writer, hand, closer, file, torn, count, events,
                   counted, mixed>>

\* The entries and the counters go, the IDs and the file stay.
Clear ==
    /\ logs' = << >> /\ logsStart' = 0 /\ top' = [c \in Clients |-> 0]
    /\ events < MaxEvents /\ events' = events + 1
    /\ UNCHANGED <<gen, nextID, queue, writer, hand, closer, file, torn, count, due,
                   counted, mixed, adder>>

-----------------------------------------------------------------------------
(* The file.                                                               *)

\* The lines that end with a newline.
Ended(f) == Len(f) - (IF torn THEN 1 ELSE 0)

\* pruneLogFile keeps the last 80% of the limit: so many lines, besides the
\* one that this cuts, or that begins there.
Kept == (4 * MaxLines + 4) \div 5 - 1
LastLines(n) == SubSeq(file, Len(file) - n + 1, Len(file))

\* That line goes if its end is among the 1024 bytes that are read there.
\* Otherwise what is left of it stays, or all of it.
Pruned == {LastLines(Kept), <<Garbled>> \o LastLines(Kept), LastLines(Kept + 1)}

\* Mutant: the count is not set after pruning.
AfterPruning_Counted(f) == count

\* countingWriter.
AfterPruning(f) == Ended(f)

\* A line that is written goes on where a line written in part ends.
Extended(f, line) ==
    IF torn THEN [f EXCEPT ![Len(f)] = Garbled] ELSE Append(f, line)

\* appendToFile of logger g: prunes a full file, if it can, then writes all,
\* a part, or nothing; a part may be all but the newline.  The counter is
\* the current logger's.
AppendToFile(e, g) ==
    LET full == Len(file) + 1 > MaxLines IN
    \E prunes \in {full, FALSE}, wrote \in {"all", "part", "none"} :
    \E base \in IF prunes THEN Pruned ELSE {file},
       line \in IF wrote = "part" THEN {e, Garbled} ELSE {e} :
        LET number == IF prunes THEN AfterPruning(base) ELSE count IN
        /\ events' = events + (IF full /\ ~prunes THEN 1 ELSE 0)
                            + (IF wrote = "all" THEN 0 ELSE 1)
        /\ events' <= MaxEvents
        /\ file' = IF wrote = "none" THEN base ELSE Extended(base, line)
        /\ torn' = IF wrote = "none" THEN torn ELSE wrote = "part"
        /\ count' = IF g # gen THEN count
                    ELSE IF wrote = "all" THEN number + 1 ELSE number
        /\ due' = due \ ((Lines(file) \ Lines(file'))
                         \cup (IF wrote = "all" /\ ~torn THEN {} ELSE {e}))
        /\ counted' = (g = gen /\ (counted \/ prunes))
        /\ mixed' = (mixed \/ g # gen)

-----------------------------------------------------------------------------
(* AddLog after l.mu is released: enqueueFileWrite.                        *)

\* l.closed of logger g.
IsClosed(g) == g < gen \/ closer # "open"

Goto(c, pc) == adder' = [adder EXCEPT ![c].pc = pc]
Return(c)   == adder' = [adder EXCEPT ![c] = Idle]

\* The logger was closed meanwhile: the entry is not written.
Check(c) ==
    /\ adder[c].pc = "check"
    /\ IF IsClosed(adder[c].entry.gen) THEN Return(c) ELSE Goto(c, "offer")
    /\ UNCHANGED <<gen, memory, queue, writer, hand, closer, disk>>

\* select { case l.fileQueue <- entry: default: }
Offer(c) ==
    LET e == adder[c].entry IN
    /\ adder[c].pc = "offer"
    /\ IF Len(queue[e.gen]) < QueueSize
       THEN Return(c) /\ queue' = [queue EXCEPT ![e.gen] = Append(@, e)]
       ELSE Goto(c, "append") /\ UNCHANGED queue
    /\ UNCHANGED <<gen, memory, writer, hand, closer, disk>>

\* The queue is full: the request writes its entry itself.
WriteDirectly(c) ==
    /\ adder[c].pc = "append"
    /\ AppendToFile(adder[c].entry, adder[c].entry.gen)
    /\ Return(c)
    /\ UNCHANGED <<gen, memory, queue, writer, hand, closer>>

-----------------------------------------------------------------------------
(* The writer goroutine.                                                   *)

\* entry := <-l.fileQueue, in either select.
Take ==
    /\ writer \in {"select", "drain"} /\ queue[gen] # << >>
    /\ hand' = Head(queue[gen])
    /\ queue' = [queue EXCEPT ![gen] = Tail(@)]
    /\ writer' = IF writer = "select" THEN "write" ELSE "flush"
    /\ UNCHANGED <<gen, memory, closer, disk, adder>>

Write ==
    /\ writer \in {"write", "flush"}
    /\ hand' = NoEntry
    /\ writer' = IF writer = "write" THEN "select" ELSE "drain"
    /\ UNCHANGED <<gen, memory, queue, closer, adder>>
    /\ AppendToFile(hand, gen)

\* Mutant: the writer ends at once.
HearStop_Ends ==
    /\ writer = "select" /\ closer = "closing"
    /\ writer' = "ended"
    /\ UNCHANGED <<gen, memory, queue, hand, closer, disk, adder>>

\* <-l.stopWriter; select may as well take from the queue.
HearStop ==
    /\ writer = "select" /\ closer = "closing"
    /\ writer' = "drain"
    /\ UNCHANGED <<gen, memory, queue, hand, closer, disk, adder>>

\* Mutant: the writer waits for more.
EndWriter_Waits == FALSE /\ UNCHANGED vars

EndWriter ==
    /\ writer = "drain" /\ queue[gen] = << >>
    /\ writer' = "ended"
    /\ UNCHANGED <<gen, memory, queue, hand, closer, disk, adder>>

-----------------------------------------------------------------------------
(* Close, the next logger, and crashes.                                    *)

InFlight == {adder[c].entry : c \in Clients}

Close ==
    /\ closer = "open"
    /\ closer' = "closing"
    /\ due' = due \ InFlight
    /\ UNCHANGED <<gen, memory, queue, writer, hand, file, torn, count, events,
                   counted, mixed, adder>>

\* <-l.writerDone
CloseReturns ==
    /\ closer = "closing" /\ writer = "ended"
    /\ closer' = "closed"
    /\ UNCHANGED <<gen, memory, queue, writer, hand, disk, adder>>

\* Mutant: the IDs go on from the number of lines.
RestoredID_Lines(f) == Len(f) + 1

\* One more than the highest ID in the lines f.
RestoredID(f) ==
    CHOOSE n \in 1 .. MaxLogs + 1 :
        /\ \A e \in Lines(f) : e.id < n
        /\ n = 1 \/ \E e \in Lines(f) : e.id = n - 1

\* NewQueryLogger, with restoreStatsFromFile and startFileWriter.  When the
\* file cannot be opened, or be read to its end, the logger begins with what
\* it has read: n lines, besides a half of the next, which is left out: only a
\* count that is wrong already takes it for a line.
NewLogger(crashes) ==
    \E n \in 0 .. Len(file) :
        LET whole == n = Len(file) IN
        /\ events' = events + crashes + (IF whole THEN 0 ELSE 1)
        /\ events' <= MaxEvents
        /\ gen < MaxLoggers /\ gen' = gen + 1
        /\ nextID' = RestoredID(SubSeq(file, 1, n)) /\ count' = n
        /\ logs' = << >> /\ logsStart' = 0 /\ top' = [c \in Clients |-> 0]
        /\ writer' = "select" /\ hand' = NoEntry /\ closer' = "open"
        /\ due' = {} /\ counted' = (whole /\ ~torn) /\ mixed' = (mixed \/ ~whole)
        /\ UNCHANGED <<file, torn>>

Reopen == closer = "closed" /\ NewLogger(0) /\ UNCHANGED <<queue, adder>>

Crash ==
    /\ NewLogger(1)
    /\ queue' = [g \in Loggers |-> << >>] /\ adder' = [c \in Clients |-> Idle]

-----------------------------------------------------------------------------
(* GetLogs: a page of the log, newest first, and the total of the view.    *)
(* What a search matches is a set of IDs; no search matches all.           *)
Everything == 1 .. MaxLogs

Least(m, n)          == IF m < n THEN m ELSE n
Cut(s, offset, size) == SubSeq(s, offset + 1, Least(offset + size, Len(s)))

\* The loop over the entries, which skips those that the search does not match.
Found(s, search) ==
    LET found[i \in 0 .. Len(s)] ==
            IF i = 0 THEN << >>
            ELSE IF s[i].id \in search THEN Append(found[i - 1], s[i])
                 ELSE found[i - 1]
    IN found[Len(s)]

\* Mutant: without a search, the scan ends after a page.
StopAfter_OnePage(offset, limit) == limit

StopAfter(offset, limit) == offset + limit

\* readLogsFromFileBackwards, over the lines that it gets to read, the newest
\* first.  No search matches a line that does not parse.
Scan(newest, offset, limit, search) ==
    LET found == Found(newest, search)
    IN IF search = Everything
       THEN [page  |-> Cut(Cut(found, 0, StopAfter(offset, limit)), offset, limit),
             total |-> count]
       ELSE [page |-> Cut(found, offset, limit), total |-> Len(found)]

FromFile(offset, limit, search) == Scan(Reverse(file), offset, limit, search)

\* A Seek or a Read fails after n lines, and what was found so far is shown.
FromPart(n, offset, limit, search) ==
    Scan(SubSeq(Reverse(file), 1, n), offset, limit, search)

\* When the file cannot be opened: the ring, directly or through the search.
FromMemory(offset, limit, search) ==
    LET n      == Len(logs)
        newest == Found([k \in 1 .. n |-> LogAt(n - k)], search)
    IN IF search = Everything
       THEN [page  |-> IF offset >= n THEN << >>
                       ELSE [k \in 1 .. Least(limit, n - offset) |->
                                LogAt(n - offset - k)],
             total |-> n]
       ELSE [page |-> Cut(newest, offset, limit), total |-> Len(newest)]

-----------------------------------------------------------------------------
AdderStep(c) == Check(c) \/ Offer(c) \/ WriteDirectly(c)

WriterStep == Take \/ Write \/ HearStop \/ EndWriter

Next ==
    \/ \E c \in Clients : AddLog(c)
    \/ \E c \in Clients : AdderStep(c)
    \/ WriterStep
    \/ Clear \/ Close \/ CloseReturns \/ Reopen \/ Crash

Spec == Init /\ [][Next]_vars

\* The writer and Close are scheduled and file operations end; a request may
\* stay where it is.
Fairness == WF_vars(WriterStep) /\ WF_vars(CloseReturns)

FairSpec == Spec /\ Fairness

-----------------------------------------------------------------------------
(* Properties.                                                             *)

\* The ring begins elsewhere only once it is full.
RingStart == Len(logs) < MaxHistory => logsStart = 0

\* The ring holds the newest entries, in the order of their IDs and without a
\* gap, however often it wrapped and whenever it was cleared
\* (querylog.go:254-279, 659-665): logAt counts them from the oldest.
RingHoldsNewest ==
    \A i \in 0 .. Len(logs) - 1 : LogAt(i).id = nextID - Len(logs) + i

\* The top counters are those of the entries in the ring, so that what was
\* overwritten is not counted any more (querylog.go:260-297).
TopMatchesRing ==
    \A c \in Clients :
        top[c] = Cardinality({i \in 1 .. Len(logs) : logs[i].client = c})

\* Where the entries are that goroutines work on.  A logger that was not made
\* has none, and the writer of an open one has not heard the signal.
EntriesHeld ==
    /\ \A c \in Clients : /\ adder[c].pc = "idle" <=> adder[c].entry = NoEntry
                          /\ adder[c].pc # "idle" => adder[c].entry.gen <= gen
    /\ writer \in {"write", "flush"} <=> hand # NoEntry
    /\ \A g \in Loggers : g > gen => queue[g] = << >>
    /\ closer = "open" => writer \in {"select", "write"}
    /\ closer = "closed" => writer = "ended"

\* An entry that is due in the file is there or on its way to it; the requests
\* that are not back when Close is called promise nothing.
DueIsOnItsWay ==
    /\ \A e \in due : e.gen = gen
    /\ due \subseteq Lines(file) \cup Lines(queue[gen]) \cup {hand}
                     \cup (IF closer = "open" THEN InFlight ELSE {})
    /\ writer = "ended" => due \subseteq Lines(file)

\* The IDs that the current logger has given, and those in the file, differ,
\* wherever the entries are, and the next one is above them all.
IDsOf(s)   == {s[i].id : i \in 1 .. Len(s)} \ {0}
Differ(s)  == \A i, j \in 1 .. Len(s) : s[i].id = s[j].id => i = j \/ s[i].id = 0
Live       == {c \in Clients : adder[c].pc # "idle" /\ adder[c].entry.gen = gen}
LiveID(c)  == adder[c].entry.id

IDsDiffer ==
    mixed \/
    /\ \A n \in IDsOf(file) \cup IDsOf(queue[gen]) \cup {hand.id} : n < nextID
    /\ Differ(file) /\ Differ(queue[gen])
    /\ IDsOf(file) \cap IDsOf(queue[gen]) = {}
    /\ hand.id \notin IDsOf(file) \cup IDsOf(queue[gen])
    /\ \A c \in Live :
          /\ LiveID(c) < nextID /\ LiveID(c) # hand.id
          /\ LiveID(c) \notin IDsOf(file) \cup IDsOf(queue[gen])
          /\ \A d \in Live : LiveID(c) = LiveID(d) => c = d

\* The invariant that implies the safety properties of the log, and is
\* inductive.  The first three parts are what the lock l.mu protects.
LogInv ==
    /\ RingStart /\ RingHoldsNewest /\ TopMatchesRing
    /\ TypeOK /\ EntriesHeld /\ DueIsOnItsWay /\ IDsDiffer

\* Close flushes (querylog.go:121-133, 231-240): an entry whose AddLog had
\* returned when Close was called is in the file when Close returns, unless
\* it was pruned, could not be written, or shares a line with one that was
\* written in part.
CloseFlushes ==
    closer = "closed" => due \subseteq Lines(file)

\* persistedLogCount, the total that the log page shows, is the number of
\* lines, through pruning, writes that fail or are cut short, and restarts
\* (querylog.go:153, 343-358, 385): once the logger has read a file of whole
\* lines to its end, or has pruned, and until an older logger touches the file.
CountMatchesFile == counted => count = Ended(file)

\* An ID is given once: no two lines that parse have the same one, over
\* reloads, crashes and writes that fail (querylog.go:158-160), as long as
\* each logger has read the whole file and no older one touches it.
IDsUnique == mixed \/ Differ(file)

\* The IDs on the pages that the log view shows for its total, put together.
AllPages(Get(_, _, _), limit, search) ==
    LET total == Get(0, limit, search).total
        pages == (total + limit - 1) \div limit
        ids   == [p \in 1 .. pages |->
                    LET page == Get((p - 1) * limit, limit, search).page
                    IN [k \in 1 .. Len(page) |-> page[k].id]]
    IN FlattenSeq(ids)

\* What is shown is what the search matches of the list, in its order: the
\* place of an entry is the number of matches up to it.
Matches(list, search, i) == {j \in 1 .. i : list[j] \in search}

ShowsMatches(shown, list, search) ==
    /\ Len(shown) = Cardinality(Matches(list, search, Len(list)))
    /\ \A i \in Matches(list, search, Len(list)) :
           shown[Cardinality(Matches(list, search, i))] = list[i]

\* The pages that the log view shows for its total, put together, are the
\* whole log or all that the search finds, newest first and each entry once
\* (querylog.go:444-500, web/server.go:479-507): from the file, for a search
\* always, and without one when the total is right, so that a line that does
\* not parse takes the place of none that does; and from the ring when the
\* file cannot be opened.
PagesShow(limit, search) ==
    /\ search # Everything \/ (counted /\ ~torn) =>
           ShowsMatches(AllPages(FromFile, limit, search),
                        [k \in 1 .. Len(file) |-> file[Len(file) - k + 1].id], search)
    /\ ShowsMatches(AllPages(FromMemory, limit, search),
                    [k \in 1 .. Len(logs) |-> nextID - k], search)

\* A file that cannot be read to its end shortens a page, and shows nothing
\* in the place of what it does not show (querylog.go:552-559).
PartShows(offset, limit, search) ==
    \A n \in 0 .. Len(file) :
        IsPrefix(FromPart(n, offset, limit, search).page,
                 FromFile(offset, limit, search).page)

OddOnes == {i \in Everything : i % 2 = 1}

PagesShowAll ==
    /\ PagesShow(1, Everything) /\ PagesShow(1, OddOnes)
    /\ PartShows(1, 1, Everything)

\* Close returns (querylog.go:231-240): the writer hears the signal and finds
\* an end of the queue, though requests still add to it.
CloseEnds == closer = "closing" ~> closer # "closing"

\* querylog_test.go:81-82 and 112: GetLogs returns the newest first, with
\* strictly decreasing IDs.  From the file it reads the lines backwards.
FileInOrder ==
    \A i, j \in 1 .. Len(file) :
        i < j /\ Garbled \notin {file[i], file[j]} => file[i].id < file[j].id
=============================================================================
