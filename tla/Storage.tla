------------------------------ MODULE Storage ------------------------------
(***************************************************************************)
(* The persistent storage: the animation is written to the flash memory by *)
(* SAVE and read by LOAD (saveCommand and loadCommand in Src/common/       *)
(* taskManager.c, toStream and fromStream in interpolators.c, saveData in  *)
(* memoryAccess.c); the header in front of it holds the baud rate of the   *)
(* Bluetooth interface (saveHeader, called by ATSetBaud).  Page after page *)
(* is copied, erased and programmed halfword by halfword; the power may    *)
(* fail at any moment.                                                     *)
(*                                                                         *)
(* The memory is that of Src/stm32/flash.c and Src/mock/flashMockup.c: an  *)
(* erased page reads as ones, programming clears bits.  The hardware       *)
(* reports no errors.                                                      *)
(*                                                                         *)
(* Everything is counted in halfwords, called words, whose values are      *)
(* tuples that say what they hold.  The fields of a task and of a step     *)
(* take one word each; a step is its color.                                *)
(***************************************************************************)
EXTENDS Integers, Sequences, SequencesExt

CONSTANTS
  Animations,   \* sequences of one task per lamp, a task being its steps
  Blank,        \* the animation after a start
  Rates,        \* baud rates
  PageWords,    \* FLASH_PAGE_SIZE in words
  HeaderWords,  \* FLASH_HEADER_SIZE in words
  Pages,        \* pages of the file system
  MaxCuts,      \* bound: how often the power fails
  Garbage,      \* an animation read from anything but a stream
  Nothing       \* no animation, no rate

Words == 0..(Pages * PageWords - 1)

toStream(tasks) ==
  <<<<"length", Len(tasks)>>>> \o
  FlattenSeq([k \in DOMAIN tasks |->
    <<<<"task", Len(tasks[k])>>>> \o [j \in DOMAIN tasks[k] |-> <<"step", tasks[k][j]>>]])

\* saveCommand hands over the number of bytes, saveData counts halfwords
Size(data) == 2 * Len(data)

ASSUME FlashAssumption ==
  /\ PageWords \in Nat \ {0, 1} /\ HeaderWords \in 1..(PageWords - 1) /\ Pages \in Nat
  /\ MaxCuts \in Nat /\ Animations \subseteq Seq(Seq(Nat)) /\ Blank \in Animations
  /\ Garbage \notin Animations /\ Nothing \notin Animations /\ Nothing \notin Rates
  /\ \A a \in Animations : HeaderWords + Size(toStream(a)) <= Pages * PageWords

ErasedWord == <<"erased">>
Unknown == <<"unknown">>    \* behind the stream, behind the memory
Mixed == <<"mixed">>        \* programmed twice without erasing

VARIABLES
  flash,   \* the file system
  tasks,   \* the animation in the RAM, or Garbage
  job,     \* what is being written; when it is over, or cut off, how far it got
  stored,  \* history: the animation saved last, Nothing after an interrupted SAVE
  rate,    \* history: the baud rate saved last, Nothing after an interruption in page 0
  cuts     \* history: power failures

vars == <<flash, tasks, job, stored, rate, cuts>>

Idle == job.phase = "idle"

NoJob == [phase |-> "idle", kind |-> "none", data |-> << >>, page |-> 0, dataCnt |-> 0,
          flashCnt |-> 0, buffer |-> << >>, word |-> 0]

Init ==
  /\ rate \in Rates
  /\ flash = [i \in Words |-> IF i = 0 THEN <<"rate", rate>> ELSE ErasedWord]
  /\ tasks = Blank
  /\ job = NoJob
  /\ stored = Nothing
  /\ cuts = 0

Read(i) == IF i \in Words THEN flash[i] ELSE Unknown

-----------------------------------------------------------------------------
(* Reading an animation.                                                   *)

ReadTask(stream) ==
  LET head == Read(stream.at)
      steps == [j \in 1..head[2] |-> Read(stream.at + j)]
  IN IF /\ stream.valid
        /\ head[1] = "task"
        /\ \A j \in DOMAIN steps : steps[j][1] = "step"
     THEN [at |-> stream.at + 1 + head[2], valid |-> TRUE,
           tasks |-> Append(stream.tasks, [j \in DOMAIN steps |-> steps[j][2]])]
     ELSE [stream EXCEPT !.valid = FALSE]

\* the length and Nsteps read from the memory steer the loops
fromStream(at) ==
  LET n == Read(at)[2]
      after[k \in 0..n] ==
        IF k = 0 THEN [at |-> at + 1, valid |-> TRUE, tasks |-> << >>] ELSE ReadTask(after[k - 1])
  IN IF Read(at)[1] = "length" /\ after[n].valid THEN after[n].tasks ELSE Garbage

-----------------------------------------------------------------------------
(* Writing.                                                                *)

\* INTERP, ISTEP and DESTROY
Edit ==
  /\ Idle
  /\ tasks' \in Animations
  /\ UNCHANGED <<flash, job, stored, rate, cuts>>

\* saveCommand, up to the first page
Save ==
  /\ Idle /\ tasks # Garbage
  /\ job' = [NoJob EXCEPT !.phase = "erase", !.kind = "data", !.data = toStream(tasks)]
  /\ UNCHANGED <<flash, tasks, stored, rate, cuts>>

\* ATSetBaud: two words are announced, data[c2 >> 1] is the first twice
SaveHeader ==
  /\ Idle
  /\ \E r \in Rates :
       job' = [NoJob EXCEPT !.phase = "erase", !.kind = "header",
                            !.data = <<<<"rate", r>>, <<"rate", r>>>>]
  /\ UNCHANGED <<flash, tasks, stored, rate, cuts>>

DataWord(k) == IF k < Len(job.data) THEN job.data[k + 1] ELSE Unknown

PageOffset_always == HeaderWords
PageOffset == IF job.page = 0 THEN HeaderWords ELSE 0

MoreData_tooLong(j) == j.dataCnt <= Size(job.data)
MoreData(j) == j.dataCnt < Size(job.data)

Copied_afterErase(i) == IF i \div PageWords = job.page THEN ErasedWord ELSE Read(i)
Copied(i) == Read(i)

\* word c2 of the page: what is in front of the data, data, what is behind
\* (read HeaderWords too far, as flashCnt also counted what is in front)
FillWord(j, c2) ==
  CASE MoreData(j) /\ c2 >= PageOffset ->
         [j EXCEPT !.buffer = Append(@, DataWord(j.dataCnt)), !.dataCnt = @ + 1]
    [] MoreData(j) /\ c2 < PageOffset ->
         [j EXCEPT !.buffer = Append(@, Copied(j.flashCnt)), !.flashCnt = @ + 1]
    [] OTHER ->
         [j EXCEPT !.buffer = Append(@, Copied(Size(job.data) + HeaderWords + j.flashCnt)),
                   !.flashCnt = @ + 1]

Filled ==
  CASE job.kind = "data" ->
         LET after[c \in 0..PageWords] ==
               IF c = 0 THEN [job EXCEPT !.buffer = << >>] ELSE FillWord(after[c - 1], c - 1)
         IN after[PageWords]
    [] job.kind = "header" ->
         [job EXCEPT !.buffer = job.data \o [c \in 1..(PageWords - 2) |-> Copied(c + 1)]]

PageOf(i) == i \div PageWords

ErasedPages_two == {job.page, job.page + 1}
ErasedPages_next == {job.page + 1}
ErasedPages == {job.page}

\* the page is copied to the RAM and erased
ErasePage ==
  /\ job.phase = "erase"
  /\ job' = [Filled EXCEPT !.phase = "program", !.word = 0]
  /\ flash' = [i \in Words |-> IF PageOf(i) \in ErasedPages THEN ErasedWord ELSE flash[i]]
  /\ UNCHANGED <<tasks, stored, rate, cuts>>

Programmed(old, new) == IF old = ErasedWord THEN new ELSE Mixed

ProgramHalfword(last) ==
  /\ job.phase = "program"
  /\ last = (job.word = PageWords - 1)
  /\ flash' = [flash EXCEPT ![job.page * PageWords + job.word] =
                              Programmed(@, job.buffer[job.word + 1])]
  /\ UNCHANGED <<tasks, cuts>>

ProgramWord ==
  /\ ProgramHalfword(FALSE)
  /\ job' = [job EXCEPT !.word = @ + 1]
  /\ UNCHANGED <<stored, rate>>

NextPage ==
  /\ ProgramHalfword(TRUE) /\ job.kind = "data" /\ MoreData(job)
  /\ job' = [job EXCEPT !.phase = "erase", !.page = @ + 1]
  /\ UNCHANGED <<stored, rate>>

Saved ==
  /\ ProgramHalfword(TRUE) /\ job.kind = "data" /\ ~MoreData(job)
  /\ job' = [job EXCEPT !.phase = "idle", !.page = @ + 1]
  /\ stored' = tasks
  /\ UNCHANGED rate

SavedHeader ==
  /\ ProgramHalfword(TRUE) /\ job.kind = "header"
  /\ job' = [job EXCEPT !.phase = "idle", !.page = @ + 1]
  /\ rate' = job.data[1][2]
  /\ UNCHANGED stored

\* loadCommand: the animation is destroyed; the size of the header is added
\* to a pointer to halfwords, that is, twice
Load ==
  /\ Idle
  /\ tasks' = fromStream(2 * HeaderWords)
  /\ UNCHANGED <<flash, job, stored, rate, cuts>>

Begun == job.phase = "program" \/ (job.phase = "erase" /\ job.page > 0)

\* the power fails and returns
Cut ==
  /\ cuts < MaxCuts
  /\ cuts' = cuts + 1
  /\ tasks' = Blank
  /\ job' = [job EXCEPT !.phase = "idle"]
  /\ stored' = IF Begun THEN Nothing ELSE stored
  /\ rate' = IF job.phase = "program" /\ job.page = 0 THEN Nothing ELSE rate
  /\ UNCHANGED flash

Next ==
  \/ Edit \/ Save \/ SaveHeader \/ Load
  \/ ErasePage \/ ProgramWord \/ NextPage \/ Saved \/ SavedHeader
  \/ Cut

Spec == Init /\ [][Next]_vars

-----------------------------------------------------------------------------
TypeOK ==
  /\ DOMAIN flash = Words
  /\ tasks \in Animations \union {Garbage}
  /\ job.phase \in {"idle", "erase", "program"}
  /\ job.page \in 0..Pages
  /\ job.dataCnt \in 0..Size(job.data)
  /\ job.phase = "program" => Len(job.buffer) = PageWords /\ job.word \in 0..(PageWords - 1)
  /\ stored \in Animations \union {Nothing}
  /\ rate \in Rates \union {Nothing}

\* What SAVE has written is there, where SAVE puts it, through later saves of
\* the baud rate and restarts: the way back from the stream gives the
\* animation that was saved.
Recoverable == Idle /\ stored # Nothing => fromStream(HeaderWords) = stored

\* The header survives every SAVE although its page is erased and written
\* anew, and holds the last baud rate, unless the power fails just then.
RateKept == (Idle \/ job.page > 0) /\ rate # Nothing => flash[0] = <<"rate", rate>>

\* At any moment, and after a power failure, the pages before the one being
\* written hold what is being saved.
WrittenSoFar ==
  job.kind = "data" =>
    \A k \in 0..(Size(job.data) - 1) :
      PageOf(HeaderWords + k) < job.page => flash[HeaderWords + k] = DataWord(k)

\* The pages behind the one being written are as they were: whenever the
\* power fails, one page at most is damaged.
OnePageAtRisk == [][\A i \in Words : flash'[i] # flash[i] => PageOf(i) = job.page]_vars

\* "LOAD: loads the interpolators" that SAVE "persistently saves".
LoadRestores == [][Load /\ stored # Nothing => tasks' = stored]_vars
=============================================================================
