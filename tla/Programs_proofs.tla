---------------------------- MODULE Programs_proofs ----------------------------
(* Theorems about the hint client's chain of timers, however often it is   *)
(* started, and about the thread that speaks the names, for every list of  *)
(* names that can be spoken (the image client has a module of its own).    *)
EXTENDS MCPrograms, SequenceTheorems, TLAPS

(* The number of threads that have cancelled and not yet waited.           *)
AboutToWait ==
  (IF io = "wait" THEN 1 ELSE 0) + (IF hint_main = "wait" THEN 1 ELSE 0)

(* Every such thread adds one wait, and what cancels takes all away; only  *)
(* the console's thread clears hint_start, and not while it starts a chain *)
HintInv ==
  /\ Hint!TypeOK
  /\ Hint!ChainAlive
  /\ waits + AboutToWait <= 2
  /\ hint_main \in {"cancel", "wait"} => hint_start

(* One step keeps it, action by action.                                    *)
LEMMA HintInductive ==
  ASSUME HintInv, Hint!Next \/ UNCHANGED hint_vars
  PROVE  HintInv'
<1> USE BoundsAssumption DEF HintInv, Hint!TypeOK, Hint!ChainAlive, AboutToWait, Hint!conn, Hint!timer
<1>1. CASE Hint!Start
  <2>1. MaxStarts \in Nat /\ starts' \in 0..MaxStarts
    BY <1>1 DEF Hint!Start
  <2>2. CASE hint_start
    BY <1>1, <2>1, <2>2 DEF Hint!Start
  <2>3. CASE ~hint_start
    BY <1>1, <2>1, <2>3 DEF Hint!Start
  <2> QED BY <2>2, <2>3
<1>2. CASE Hint!StartCancel
  BY <1>2 DEF Hint!StartCancel, Hint!ExpiresAfter
<1>3. CASE Hint!StartWait
  BY <1>3 DEF Hint!StartWait, Hint!AsyncWait
<1>4. CASE Hint!Stop
  BY <1>4 DEF Hint!Stop
<1>5. CASE Hint!Exit \/ Hint!Join
  BY <1>5 DEF Hint!Exit, Hint!Join
<1>6. CASE Hint!Connected
  BY <1>6 DEF Hint!Connected
<1>7. CASE Hint!RunClose \/ Hint!ReadFailed \/ Hint!Broken
  <2>1. CASE Hint!RunClose
    BY <2>1 DEF Hint!RunClose
  <2>2. CASE Hint!ReadFailed
    BY <2>2 DEF Hint!ReadFailed
  <2>3. CASE Hint!Broken
    BY <2>3 DEF Hint!Broken
  <2> QED BY <1>7, <2>1, <2>2, <2>3
<1>8. CASE Hint!RunFired
  BY <1>8 DEF Hint!RunFired
<1>9. CASE Hint!RunAborted
  BY <1>9 DEF Hint!RunAborted
<1>10. CASE Hint!IoCancel
  BY <1>10 DEF Hint!IoCancel, Hint!ExpiresAfter
<1>11. CASE Hint!IoWait
  BY <1>11 DEF Hint!IoWait, Hint!AsyncWait
<1>12. CASE Hint!IoEnds
  BY <1>12 DEF Hint!IoEnds
<1>13. CASE Hint!Expire
  BY <1>13 DEF Hint!Expire
<1>14. CASE UNCHANGED hint_vars
  BY <1>14 DEF hint_vars
<1> QED
  BY <1>1, <1>2, <1>3, <1>4, <1>5, <1>6, <1>7, <1>8, <1>9, <1>10, <1>11, <1>12,
     <1>13, <1>14 DEF Hint!Next, Hint!IoThread

-----------------------------------------------------------------------------
(* The voice client.                                                       *)

(* The names of the list that a pass has compared.                         *)
Compared == {PeopleDB[i] : i \in 1..(loopnum - 1)}

(* A pass that will speak: voiceOn is set, and this pass has not spoken.   *)
Due == IF voiceOn /\ ~(pc = "pass" /\ said # {}) THEN 1 ELSE 0

(* The connection; each thread and each task was clicked for.              *)
NetOK ==
  /\ clicks \in 0..MaxClicks /\ tasks \in 0..MaxClicks
  /\ executing \in 0..MaxClicks /\ sending \in 0..MaxClicks
  /\ task \in {"none", "connecting", "reading", "spinning"}
  /\ mTcpClient \in {"null", "unconnected", "connected"}
  /\ task = "reading" => mTcpClient = "connected"
  /\ loggedIn \in BOOLEAN
  /\ tasks + executing <= clicks /\ sending + executing <= clicks

Begun == IF begun THEN 1 ELSE 0

(* The names on their way to the text; every list becomes at most one      *)
(* update.                                                                 *)
NamesOK ==
  /\ lists \in 0..MaxLists /\ updates \in 0..MaxLists
  /\ begun \in BOOLEAN /\ (~begun => partial = {})
  /\ partial \subseteq Voice!Names /\ txtMessage \subseteq Voice!Names
  /\ published \in Seq(SUBSET Voice!Names)
  /\ setting \in BOOLEAN
  /\ updates + (IF setting THEN 1 ELSE 0) + Len(published) + Begun <= lists

(* The voice thread.                                                       *)
PassOK ==
  /\ voiceOn \in BOOLEAN /\ onAtStart \in BOOLEAN
  /\ pc \in {"read", "pass", "pause"}
  /\ heard \subseteq Voice!Names /\ said \subseteq heard
  /\ loopnum \in 1..(Len(PeopleDB) + 1)
  /\ spoke \in Nat

(* A pass that began with voiceOn keeps it to its end, and has spoken the  *)
(* names it compared; a pass that spoke has cost an update, or the flag    *)
(* as it was set at the beginning.                                         *)
Spoken ==
  /\ pc = "pass" /\ onAtStart => voiceOn /\ said = heard \cap Compared
  /\ pc = "pause" /\ onAtStart => said = heard
  /\ pc = "pass" /\ said # {} => voiceOn
  /\ spoke + Due <= updates + 1

VoiceInv == NetOK /\ NamesOK /\ PassOK /\ Spoken

(* The invariant has what the run checks.                                  *)
LEMMA VoiceInvSays ==
  ASSUME VoiceInv
  PROVE  Voice!TypeOK /\ Voice!PassSpeaksAll
<1>1. Voice!TypeOK
  BY DEF VoiceInv, NetOK, NamesOK, PassOK, Voice!TypeOK
<1>2. Voice!PassSpeaksAll
  <2>1. spoke \in Nat /\ updates \in Nat /\ Due \in {0, 1} /\ spoke + Due <= updates + 1
    BY BoundsAssumption DEF VoiceInv, NamesOK, PassOK, Spoken, Due
  <2>2. pc = "pause" /\ onAtStart => said = heard
    BY DEF VoiceInv, Spoken
  <2>3. spoke <= updates + 1
    BY <2>1
  <2> QED BY <2>2, <2>3 DEF Voice!PassSpeaksAll
<1> QED BY <1>1, <1>2

(* The names of the list are those at its positions.                       *)
LEMMA AllCompared ==
  ASSUME loopnum \in 1..(Len(PeopleDB) + 1), loopnum > Len(PeopleDB)
  PROVE  Compared = Voice!Names
<1>1. Len(PeopleDB) \in Nat
  BY PeopleAssumption
<1>2. loopnum - 1 = Len(PeopleDB)
  BY <1>1
<1> QED BY <1>2 DEF Compared, Voice!Names

(* The connection's threads leave the voice thread alone.                  *)
LEMMA NetKeeps ==
  ASSUME VoiceInv, NetOK', NamesOK', UNCHANGED <<voiceOn, updates, Voice!voice>>
  PROVE  VoiceInv'
<1>1. Compared' = Compared /\ Due' = Due
  BY DEF Compared, Due, Voice!voice
<1>2. PassOK'
  BY DEF VoiceInv, PassOK, Voice!voice
<1>3. Spoken'
  BY <1>1 DEF VoiceInv, Spoken, Voice!voice
<1> QED BY <1>2, <1>3 DEF VoiceInv

(* A line more, or one less, for the user-interface thread.                *)
LEMMA Appended ==
  ASSUME VoiceInv, NEW line \in SUBSET Voice!Names
  PROVE  /\ Append(published, line) \in Seq(SUBSET Voice!Names)
         /\ Len(Append(published, line)) = Len(published) + 1
         /\ Len(published) \in Nat
<1>1. published \in Seq(SUBSET Voice!Names)
  BY DEF VoiceInv, NamesOK
<1> QED BY <1>1, AppendProperties, LenProperties

(* The clicks' threads and the tasks keep it.                              *)
LEMMA ConnectionKeeps ==
  ASSUME VoiceInv,
         Voice!Click \/ Voice!Execute \/ Voice!Login \/ Voice!StartTask \/ Voice!Connect
  PROVE  VoiceInv'
<1> USE BoundsAssumption
<1>1. NetOK' /\ UNCHANGED <<Voice!lines, published, Voice!ui, voiceOn, Voice!voice>>
  <2>1. CASE Voice!Click
    BY <2>1 DEF Voice!Click, VoiceInv, NetOK
  <2>2. CASE Voice!Execute
    BY <2>2 DEF Voice!Execute, VoiceInv, NetOK
  <2>3. CASE Voice!Login
    BY <2>3 DEF Voice!Login, VoiceInv, NetOK
  <2>4. CASE Voice!StartTask
    BY <2>4 DEF Voice!StartTask, VoiceInv, NetOK
  <2>5. CASE Voice!Connect
    BY <2>5 DEF Voice!Connect, VoiceInv, NetOK
  <2> QED BY <2>1, <2>2, <2>3, <2>4, <2>5
<1>2. NamesOK'
  BY <1>1 DEF VoiceInv, NamesOK, Begun, Voice!lines, Voice!ui
<1> QED BY <1>1, <1>2, NetKeeps DEF Voice!ui

(* The end of a connection keeps it: the line that was begun is published, *)
(* or dropped.                                                             *)
LEMMA LostKeeps ==
  ASSUME VoiceInv, Voice!Lost
  PROVE  VoiceInv'
<1> USE BoundsAssumption
<1>1. /\ task' \in {"spinning", "none"} /\ loggedIn' = FALSE
      /\ begun' = FALSE /\ partial' = {}
      /\ UNCHANGED <<clicks, executing, sending, tasks, mTcpClient, lists, Voice!ui,
                    voiceOn, Voice!voice>>
  BY DEF Voice!Lost
<1>2. \/ published' = published
      \/ begun /\ published' = Append(published, partial)
  BY DEF Voice!Lost
<1>3. partial \in SUBSET Voice!Names /\ published \in Seq(SUBSET Voice!Names)
  BY DEF VoiceInv, NamesOK
<1>4. /\ published' \in Seq(SUBSET Voice!Names) /\ Len(published) \in Nat
      /\ Len(published') \in Nat /\ Len(published') <= Len(published) + Begun
  <2>1. CASE published' = published
    <3>1. Len(published) \in Nat
      BY <1>3
    <3> QED BY <1>3, <2>1, <3>1 DEF Begun
  <2>2. CASE begun /\ published' = Append(published, partial)
    BY <1>3, <2>2, Appended DEF Begun
  <2> QED BY <1>2, <2>1, <2>2
<1>5. NamesOK'
  <2>1. Len(published') + Begun' <= Len(published) + Begun
    BY <1>1, <1>4 DEF Begun
  <2>2. Begun \in Nat /\ Begun' \in Nat
    BY DEF Begun
  <2>3. begun' \in BOOLEAN /\ (~begun' => partial' = {})
    BY <1>1, Zenon
  <2>4. lists' = lists /\ txtMessage' = txtMessage /\ setting' = setting /\ updates' = updates
    BY <1>1 DEF Voice!ui
  <2> QED BY <1>1, <1>4, <2>1, <2>2, <2>3, <2>4 DEF VoiceInv, NamesOK
<1>6. NetOK'
  BY <1>1 DEF VoiceInv, NetOK
<1> QED BY <1>1, <1>5, <1>6, NetKeeps DEF Voice!ui

(* A list of names that arrives keeps it.                                  *)
LEMMA ReceiveKeeps ==
  ASSUME VoiceInv, Voice!Receive
  PROVE  VoiceInv'
<1> USE BoundsAssumption
<1>1. /\ lists < MaxLists /\ lists' = lists + 1
      /\ UNCHANGED <<Voice!net, Voice!ui, voiceOn, Voice!voice>>
  BY DEF Voice!Receive
<1>2. PICK names \in SUBSET Voice!Names, newline \in BOOLEAN :
        /\ begun' = ~newline
        /\ IF newline
             THEN partial' = {} /\ published' = Append(published, partial \cup names)
             ELSE partial' = partial \cup names /\ UNCHANGED published
  BY DEF Voice!Receive
<1>3. partial \cup names \in SUBSET Voice!Names /\ published \in Seq(SUBSET Voice!Names)
  BY DEF VoiceInv, NamesOK
<1>4. /\ partial' \subseteq Voice!Names /\ published' \in Seq(SUBSET Voice!Names)
      /\ begun' \in BOOLEAN /\ (~begun' => partial' = {})
      /\ Len(published) \in Nat /\ Len(published') \in Nat
      /\ Len(published') + Begun' <= Len(published) + 1
  <2>1. CASE newline
    <3>1. /\ partial' = {} /\ published' = Append(published, partial \cup names)
          /\ begun' = FALSE
      BY <1>2, <2>1
    <3>2. /\ published' \in Seq(SUBSET Voice!Names)
          /\ Len(published') = Len(published) + 1 /\ Len(published) \in Nat
      BY <1>3, <3>1, Appended
    <3>3. begun' \in BOOLEAN /\ ~begun'
      BY <3>1, Zenon
    <3>4. Begun' = 0
      BY <3>3 DEF Begun
    <3> QED BY <3>1, <3>2, <3>3, <3>4
  <2>2. CASE ~newline
    <3>1. /\ partial' = partial \cup names /\ published' = published
          /\ begun' = TRUE
      BY <1>2, <2>2
    <3>2. Len(published) \in Nat
      BY <1>3
    <3>3. begun' \in BOOLEAN /\ begun'
      BY <3>1, Zenon
    <3>4. Begun' = 1
      BY <3>3 DEF Begun
    <3> QED BY <1>3, <3>1, <3>2, <3>3, <3>4
  <2> QED BY <2>1, <2>2
<1>5. NamesOK'
  <2>1. Begun \in Nat /\ Begun' \in Nat
    BY DEF Begun
  <2> QED BY <1>1, <1>4, <2>1 DEF VoiceInv, NamesOK, Voice!ui
<1>6. NetOK'
  BY <1>1 DEF VoiceInv, NetOK, Voice!net
<1> QED BY <1>1, <1>5, <1>6, NetKeeps DEF Voice!ui

(* The steps of the user-interface thread keep it: voiceOn is set together *)
(* with a new update.                                                      *)
LEMMA UiKeeps ==
  ASSUME VoiceInv, Voice!SetText \/ Voice!SetVoiceOn
  PROVE  VoiceInv'
<1> USE BoundsAssumption
<1>1. CASE Voice!SetText
  <2>1. /\ ~setting /\ published # <<>> /\ published \in Seq(SUBSET Voice!Names)
        /\ txtMessage' = Head(published) /\ published' = Tail(published) /\ setting'
        /\ UNCHANGED <<Voice!net, Voice!lines, voiceOn, updates, Voice!voice>>
    BY <1>1 DEF Voice!SetText, VoiceInv, NamesOK
  <2>2. txtMessage' \subseteq Voice!Names /\ published' \in Seq(SUBSET Voice!Names)
    BY <2>1
  <2>3. Len(published) \in Nat /\ Len(published') = Len(published) - 1
    BY <2>1
  <2>4. setting' = TRUE
    BY <1>1 DEF Voice!SetText
  <2>5. NamesOK'
    BY <2>1, <2>2, <2>3, <2>4 DEF VoiceInv, NamesOK, Begun, Voice!lines
  <2>6. NetOK'
    BY <2>1 DEF VoiceInv, NetOK, Voice!net
  <2> QED BY <2>1, <2>5, <2>6, NetKeeps
<1>2. CASE Voice!SetVoiceOn
  <2>1. /\ setting /\ setting' = FALSE /\ voiceOn' = TRUE /\ updates' = updates + 1
        /\ UNCHANGED <<Voice!net, Voice!lines, published, txtMessage, Voice!voice>>
    BY <1>2 DEF Voice!SetVoiceOn
  <2>2. Len(published) \in Nat
    BY DEF VoiceInv, NamesOK
  <2>3. NamesOK'
    <3>1. /\ lists \in 0..MaxLists /\ updates \in 0..MaxLists /\ MaxLists \in Nat
          /\ updates + 1 + Len(published) + Begun <= lists
      BY <2>1 DEF VoiceInv, NamesOK
    <3>2. Begun \in Nat /\ Begun' = Begun
      BY <2>1 DEF Begun, Voice!lines
    <3>3. updates' \in 0..MaxLists /\ updates' + 0 + Len(published) + Begun <= lists
      BY <2>1, <2>2, <3>1, <3>2
    <3> QED BY <2>1, <3>2, <3>3 DEF VoiceInv, NamesOK, Voice!lines
  <2>4. NetOK' /\ PassOK'
    BY <2>1 DEF VoiceInv, NetOK, PassOK, Voice!net, Voice!voice
  <2>5. Compared' = Compared
    BY <2>1 DEF Compared, Voice!voice
  <2>6. Spoken'
    BY <2>1, <2>5 DEF VoiceInv, NamesOK, PassOK, Spoken, Due, Voice!voice
  <2> QED BY <2>3, <2>4, <2>6 DEF VoiceInv
<1> QED BY <1>1, <1>2

(* The steps of the voice thread keep it.                                  *)
LEMMA VoiceKeeps ==
  ASSUME VoiceInv, Voice!Voice
  PROVE  VoiceInv'
<1>1. Len(PeopleDB) \in Nat
  BY PeopleAssumption
<1>2. NetOK' /\ NamesOK' /\ UNCHANGED updates
  <2>1. UNCHANGED <<Voice!net, Voice!lines, published, Voice!ui>>
    BY DEF Voice!Voice, Voice!ReadText, Voice!Compare, Voice!EndPass, Voice!Wake
  <2> QED BY <2>1 DEF VoiceInv, NetOK, NamesOK, Begun, Voice!net, Voice!lines, Voice!ui
<1>3. updates \in Nat
  BY BoundsAssumption DEF VoiceInv, NamesOK
<1>4. CASE Voice!ReadText
  <2>1. /\ pc = "read" /\ pc' = "pass" /\ heard' = txtMessage /\ loopnum' = 1
        /\ said' = {} /\ onAtStart' = voiceOn /\ UNCHANGED <<voiceOn, spoke>>
    BY <1>4 DEF Voice!ReadText
  <2>2. Compared' = {}
    BY <2>1 DEF Compared
  <2>3. PassOK'
    BY <1>1, <2>1 DEF VoiceInv, NamesOK, PassOK
  <2>4. Spoken'
    BY <1>2, <2>1, <2>2 DEF VoiceInv, PassOK, Spoken, Due
  <2> QED BY <1>2, <2>3, <2>4 DEF VoiceInv
<1>5. CASE Voice!Compare
  <2> DEFINE name == PeopleDB[loopnum]
             speaks == voiceOn /\ name \in heard
  <2>1. /\ pc = "pass" /\ loopnum <= Len(PeopleDB)
        /\ loopnum' = loopnum + 1
        /\ said' = IF speaks THEN said \cup {name} ELSE said
        /\ spoke' = IF speaks /\ said = {} THEN spoke + 1 ELSE spoke
        /\ UNCHANGED <<voiceOn, pc, heard, onAtStart>>
    BY <1>5 DEF Voice!Compare
  <2>2. loopnum \in 1..Len(PeopleDB)
    BY <1>1, <2>1 DEF VoiceInv, PassOK
  <2>3. Compared' = Compared \cup {name}
    <3>1. loopnum' - 1 = loopnum /\ 1..loopnum = 1..(loopnum - 1) \cup {loopnum}
      BY <1>1, <2>1, <2>2
    <3> QED BY <3>1 DEF Compared
  <2>4. PassOK'
    BY <1>1, <2>1, <2>2 DEF VoiceInv, PassOK
  <2>5. spoke' + Due' <= updates' + 1
    <3>1. said' # {} <=> said # {} \/ speaks
      BY <2>1
    <3> HIDE DEF name
    <3> QED BY <1>2, <1>3, <2>1, <3>1 DEF VoiceInv, PassOK, Spoken, Due
  <2>6. onAtStart' => voiceOn' /\ said' = heard' \cap Compared'
    <3> SUFFICES ASSUME onAtStart
                 PROVE  voiceOn' /\ said' = heard' \cap Compared'
      BY <2>1
    <3>1. voiceOn /\ said = heard \cap Compared
      BY <2>1 DEF VoiceInv, Spoken
    <3> HIDE DEF name
    <3> QED BY <2>1, <2>3, <3>1
  <2>7. said' # {} => voiceOn'
    BY <2>1 DEF VoiceInv, Spoken
  <2>8. Spoken'
    BY <2>1, <2>5, <2>6, <2>7 DEF Spoken
  <2> QED BY <1>2, <2>4, <2>8 DEF VoiceInv
<1>6. CASE Voice!EndPass
  <2>1. /\ pc = "pass" /\ pc' = "pause" /\ loopnum > Len(PeopleDB) /\ voiceOn' = FALSE
        /\ UNCHANGED <<heard, loopnum, said, onAtStart, spoke>>
    BY <1>6 DEF Voice!EndPass
  <2>2. PassOK'
    BY <2>1 DEF VoiceInv, PassOK
  <2>3. onAtStart' => said' = heard'
    <3>1. Compared = Voice!Names /\ heard \subseteq Voice!Names
      BY <2>1, AllCompared DEF VoiceInv, PassOK
    <3> QED BY <2>1, <3>1 DEF VoiceInv, Spoken
  <2>4. spoke' + Due' <= updates' + 1
    BY <1>2, <1>3, <2>1 DEF VoiceInv, PassOK, Spoken, Due
  <2>5. Spoken'
    BY <2>1, <2>3, <2>4 DEF Spoken
  <2> QED BY <1>2, <2>2, <2>5 DEF VoiceInv
<1>7. CASE Voice!Wake
  <2>1. /\ pc = "pause" /\ pc' = "read"
        /\ UNCHANGED <<voiceOn, heard, loopnum, said, onAtStart, spoke>>
    BY <1>7 DEF Voice!Wake
  <2>2. PassOK'
    BY <2>1 DEF VoiceInv, PassOK
  <2>3. Spoken'
    BY <1>2, <1>3, <2>1 DEF VoiceInv, PassOK, Spoken, Due
  <2> QED BY <1>2, <2>2, <2>3 DEF VoiceInv
<1> QED BY <1>4, <1>5, <1>6, <1>7 DEF Voice!Voice

(* One step keeps it.                                                      *)
LEMMA VoiceInductive ==
  ASSUME VoiceInv, Voice!Next \/ UNCHANGED voice_vars
  PROVE  VoiceInv'
<1>1. CASE UNCHANGED voice_vars
  <2>1. NetOK' /\ NamesOK' /\ UNCHANGED <<voiceOn, updates, Voice!voice>>
    BY <1>1 DEF VoiceInv, NetOK, NamesOK, Begun, voice_vars, Voice!voice
  <2> QED BY <2>1, NetKeeps
<1> QED BY <1>1, ConnectionKeeps, LostKeeps, ReceiveKeeps, UiKeeps, VoiceKeeps DEF Voice!Next

-----------------------------------------------------------------------------
(* A step of the run is a step of one program.                             *)
LEMMA Inductive ==
  ASSUME HintInv, VoiceInv,
         [ProgramsNext]_<<program, image_vars, hint_vars, voice_vars, sink_vars>>
  PROVE  HintInv' /\ VoiceInv'
<1>1. Hint!Next \/ UNCHANGED hint_vars
  BY DEF ProgramsNext
<1>2. Voice!Next \/ UNCHANGED voice_vars
  BY DEF ProgramsNext
<1> QED BY <1>1, <1>2, HintInductive, VoiceInductive

(* Every program begins well.                                              *)
LEMMA Initial ==
  ASSUME ProgramsInit
  PROVE  HintInv /\ VoiceInv
<1>1. Hint!Init /\ Voice!Init
  BY DEF ProgramsInit
<1>2. MaxStarts \in Nat /\ MaxClicks \in Nat /\ MaxLists \in Nat
  BY BoundsAssumption
<1>3. Len(PeopleDB) \in Nat
  BY PeopleAssumption
<1>4. /\ {hint_reading, hint_closing, hint_start} \subseteq BOOLEAN
      /\ loggedIn \in BOOLEAN /\ setting \in BOOLEAN
      /\ voiceOn \in BOOLEAN /\ onAtStart \in BOOLEAN
  BY <1>1, Zenon DEF Hint!Init, Voice!Init
<1>5. HintInv
  <2>1. /\ waits = 0 /\ fired = 0 /\ aborted = 0 /\ starts = 0
        /\ hint_sock = "connecting" /\ io = "idle" /\ hint_main = "typing" /\ ~hint_start
    BY <1>1 DEF Hint!Init
  <2>2. Hint!TypeOK
    BY <1>2, <1>4, <2>1 DEF Hint!TypeOK
  <2> QED BY <2>1, <2>2 DEF HintInv, Hint!ChainAlive, AboutToWait
<1>6. NetOK
  <2>1. /\ clicks = 0 /\ executing = 0 /\ sending = 0 /\ tasks = 0 /\ task = "none"
        /\ mTcpClient = "null"
    BY <1>1 DEF Voice!Init
  <2> QED BY <1>2, <1>4, <2>1 DEF NetOK
<1>7. NamesOK
  <2>1. /\ lists = 0 /\ updates = 0 /\ begun = FALSE /\ partial = {} /\ txtMessage = {}
        /\ published = <<>> /\ setting = FALSE
    BY <1>1 DEF Voice!Init
  <2>2. begun \in BOOLEAN /\ ~begun
    BY <2>1, Zenon
  <2>3. Begun = 0
    BY <2>2 DEF Begun
  <2>4. setting \in BOOLEAN /\ ~setting
    BY <2>1, Zenon
  <2> QED BY <1>2, <2>1, <2>2, <2>3, <2>4 DEF NamesOK
<1>8. PassOK
  <2>1. pc = "read" /\ heard = {} /\ loopnum = 1 /\ said = {} /\ spoke = 0
    BY <1>1 DEF Voice!Init
  <2> QED BY <1>3, <1>4, <2>1 DEF PassOK
<1>9. Spoken
  BY <1>1 DEF Voice!Init, Spoken, Due
<1> QED BY <1>5, <1>6, <1>7, <1>8, <1>9 DEF VoiceInv

(* As long as hints are started and both threads go on, a post is due or   *)
(* on its way, and never more than two wait (hint-client/client.hpp:83-90, *)
(* 129-135), however often the user starts and stops.                      *)
THEOREM ChainNeverDies == ProgramsSpec => []ChainAlive
<1>1. HintInv => ChainAlive
  BY DEF HintInv, ChainAlive
<1> QED BY <1>1, Initial, Inductive, PTL DEF ProgramsSpec

(* Whatever lines come while the voice thread passes over its names, a     *)
(* pass that begins with voiceOn set speaks every name of the text it has  *)
(* read, and no more passes speak than there were updates, but for one at  *)
(* the beginning (MainActivity.java:221-256), for every list of names.     *)
THEOREM EveryNameSpoken == ProgramsSpec => []PassSpeaksAll
<1>1. VoiceInv => PassSpeaksAll
  BY VoiceInvSays DEF PassSpeaksAll
<1> QED BY <1>1, Initial, Inductive, PTL DEF ProgramsSpec
=============================================================================
