------------------------------ MODULE VoiceClient ------------------------------
(***************************************************************************)
(* The Android application that speaks the names it is sent: its           *)
(* connection (ConnectTask and TcpClient), its login, its text field and   *)
(* the thread that reads the names in the text aloud (PeopleDatabase).     *)
(*                                                                         *)
(* Each click starts a thread that executes a ConnectTask and then logs in *)
(* if there is a client.  Android executes the tasks one after the other.  *)
(* A task reads lines: of a list of names it sees nothing before a         *)
(* newline, which the server's detection puts at the end of its lists and  *)
(* the hint client does not.                                               *)
(***************************************************************************)
EXTENDS Integers, Sequences

CONSTANTS PeopleDB,   \* the names that can be spoken, in the order of the list
          MaxClicks,  \* bound: the clicks
          MaxLists    \* bound: the lists of names that arrive

VARIABLES
  clicks,     \* the number of clicks
  executing,  \* the threads of clicks that have not executed their task yet
  sending,    \* those that have, and will send the login
  tasks,      \* the ConnectTasks that wait for their turn
  task,       \* the one that runs: "none", "connecting", "reading" or "spinning"
  mTcpClient, \* is there a client, and does it have its BinaryOut? "null",
              \* "unconnected" or "connected"
  loggedIn,   \* has the server got a login?
  lists,      \* the number of lists that arrived
  begun,      \* has the reader the beginning of a line?
  partial,    \* the names in it
  published,  \* the lines given to the user-interface thread
  txtMessage, \* the text: the names in it
  setting,    \* is onProgressUpdate between the text and voiceOn?
  voiceOn,
  pc,         \* the voice thread: "read", "pass" or "pause"
  heard,      \* the text that its pass compares
  loopnum,    \* the name that its pass compares next
  said,       \* the names spoken in this pass (history)
  onAtStart,  \* voiceOn when the pass began (history)
  updates,    \* how often the user-interface thread set voiceOn (history)
  spoke       \* how many passes spoke (history)

net == <<clicks, executing, sending, tasks, task, mTcpClient, loggedIn>>
lines == <<lists, begun, partial>>
ui == <<txtMessage, setting, updates>>
voice == <<pc, heard, loopnum, said, onAtStart, spoke>>
vars == <<net, lines, published, ui, voiceOn, voice>>

Names == {PeopleDB[i] : i \in 1..Len(PeopleDB)}

TypeOK ==
  /\ clicks \in 0..MaxClicks /\ tasks \in 0..MaxClicks
  /\ executing \in 0..MaxClicks /\ sending \in 0..MaxClicks
  /\ task \in {"none", "connecting", "reading", "spinning"}
  /\ mTcpClient \in {"null", "unconnected", "connected"}
  /\ task = "reading" => mTcpClient = "connected"
  /\ lists \in 0..MaxLists /\ begun \in BOOLEAN
  /\ partial \subseteq Names /\ (~begun => partial = {})
  /\ published \in Seq(SUBSET Names)
  /\ txtMessage \subseteq Names
  /\ {loggedIn, setting, voiceOn, onAtStart} \subseteq BOOLEAN
  /\ pc \in {"read", "pass", "pause"}
  /\ heard \subseteq Names /\ said \subseteq heard
  /\ loopnum \in 1..(Len(PeopleDB) + 1)
  /\ updates \in 0..MaxLists /\ spoke \in Nat

Init ==
  /\ clicks = 0 /\ executing = 0 /\ sending = 0 /\ tasks = 0 /\ task = "none"
  /\ mTcpClient = "null" /\ loggedIn = FALSE
  /\ lists = 0 /\ begun = FALSE /\ partial = {} /\ published = <<>>
  /\ txtMessage = {} /\ setting = FALSE /\ voiceOn = TRUE /\ updates = 0
  /\ pc = "read" /\ heard = {} /\ loopnum = 1 /\ said = {}
  /\ onAtStart = FALSE /\ spoke = 0

-----------------------------------------------------------------------------
(* The connection.                                                         *)

(* Each click starts a thread of its own.                                  *)
Click ==
  /\ clicks < MaxClicks
  /\ clicks' = clicks + 1
  /\ executing' = executing + 1
  /\ UNCHANGED <<sending, tasks, task, mTcpClient, loggedIn, lines, published, ui,
                 voiceOn, voice>>

Execute ==
  /\ executing > 0
  /\ executing' = executing - 1
  /\ sending' = sending + 1
  /\ tasks' = tasks + 1
  /\ UNCHANGED <<clicks, task, mTcpClient, loggedIn, lines, published, ui, voiceOn, voice>>

(* Faulty variant of Login: only the first click logs in.                  *)
LoginOnce ==
  /\ sending > 0
  /\ sending' = sending - 1
  /\ loggedIn' = (loggedIn \/ (task = "reading" /\ clicks = 1))
  /\ UNCHANGED <<clicks, executing, tasks, task, mTcpClient, lines, published, ui,
                 voiceOn, voice>>

(* The login goes out if there is a client with a BinaryOut and its socket *)
(* is open; without a client it is skipped, without a BinaryOut its        *)
(* exception is logged.  Nobody tries again but another click.             *)
Login ==
  /\ sending > 0
  /\ sending' = sending - 1
  /\ loggedIn' = (loggedIn \/ (mTcpClient = "connected" /\ task = "reading"))
  /\ UNCHANGED <<clicks, executing, tasks, task, mTcpClient, lines, published, ui,
                 voiceOn, voice>>

(* doInBackground: a new client.                                           *)
StartTask ==
  /\ task = "none" /\ tasks > 0
  /\ tasks' = tasks - 1
  /\ task' = "connecting"
  /\ mTcpClient' = "unconnected"
  /\ UNCHANGED <<clicks, executing, sending, loggedIn, lines, published, ui, voiceOn,
                 voice>>

(* TcpClient.run connects and makes its streams, or its exception ends the *)
(* task.                                                                   *)
Connect ==
  /\ task = "connecting"
  /\ \/ task' = "reading" /\ mTcpClient' = "connected"
     \/ task' = "none" /\ UNCHANGED mTcpClient
  /\ UNCHANGED <<clicks, executing, sending, tasks, loggedIn, lines, published, ui,
                 voiceOn, voice>>

(* The connection ends: either readLine returns what it has of a line and  *)
(* then null, and mRun is never cleared, so the loop spins and keeps the   *)
(* tasks behind it waiting; or it throws, and the task ends.  The next     *)
(* task's client has a reader of its own.                                  *)
Lost ==
  /\ task = "reading"
  /\ \/ /\ task' = "spinning"
        /\ published' = IF begun THEN Append(published, partial) ELSE published
     \/ /\ task' = "none"
        /\ UNCHANGED published
  /\ begun' = FALSE /\ partial' = {}
  /\ loggedIn' = FALSE
  /\ UNCHANGED <<clicks, executing, sending, tasks, mTcpClient, lists, ui, voiceOn,
                 voice>>

(* A list of names arrives, with a newline at its end or without one.      *)
Receive ==
  /\ task = "reading" /\ loggedIn /\ lists < MaxLists
  /\ lists' = lists + 1
  /\ \E names \in SUBSET Names, newline \in BOOLEAN :
     /\ begun' = ~newline
     /\ IF newline
         THEN partial' = {} /\ published' = Append(published, partial \cup names)
         ELSE partial' = partial \cup names /\ UNCHANGED published
  /\ UNCHANGED <<net, ui, voiceOn, voice>>

-----------------------------------------------------------------------------
(* The user-interface thread: onProgressUpdate shows a line, and sets      *)
(* voiceOn since the text, an Editable, never equals a String.             *)
SetText ==
  /\ ~setting /\ published # <<>>
  /\ txtMessage' = Head(published)
  /\ published' = Tail(published)
  /\ setting' = TRUE
  /\ UNCHANGED <<net, lines, voiceOn, updates, voice>>

SetVoiceOn ==
  /\ setting
  /\ setting' = FALSE
  /\ voiceOn' = TRUE
  /\ updates' = updates + 1
  /\ UNCHANGED <<net, lines, published, txtMessage, voice>>

-----------------------------------------------------------------------------
(* The voice thread.                                                       *)
ReadText ==
  /\ pc = "read"
  /\ heard' = txtMessage
  /\ pc' = "pass" /\ loopnum' = 1
  /\ said' = {} /\ onAtStart' = voiceOn
  /\ UNCHANGED <<net, lines, published, ui, voiceOn, spoke>>

(* Faulty variant of Compare: the flag is cleared by the first name.       *)
CompareFirst ==
  /\ pc = "pass" /\ loopnum <= Len(PeopleDB)
  /\ LET speaks == voiceOn /\ PeopleDB[loopnum] \in heard
     IN  /\ said' = IF speaks THEN said \cup {PeopleDB[loopnum]} ELSE said
         /\ spoke' = IF speaks /\ said = {} THEN spoke + 1 ELSE spoke
         /\ voiceOn' = (voiceOn /\ ~speaks)
  /\ loopnum' = loopnum + 1
  /\ UNCHANGED <<net, lines, published, ui, pc, heard, onAtStart>>

(* A name that the text has is spoken, for a second, if voiceOn is set.    *)
Compare ==
  /\ pc = "pass" /\ loopnum <= Len(PeopleDB)
  /\ LET speaks == voiceOn /\ PeopleDB[loopnum] \in heard
     IN  /\ said' = IF speaks THEN said \cup {PeopleDB[loopnum]} ELSE said
         /\ spoke' = IF speaks /\ said = {} THEN spoke + 1 ELSE spoke
  /\ loopnum' = loopnum + 1
  /\ UNCHANGED <<net, lines, published, ui, voiceOn, pc, heard, onAtStart>>

(* The end of the pass clears voiceOn, also when an update set it during   *)
(* the pass, whose names are then not spoken.                              *)
EndPass ==
  /\ pc = "pass" /\ loopnum > Len(PeopleDB)
  /\ voiceOn' = FALSE
  /\ pc' = "pause"
  /\ UNCHANGED <<net, lines, published, ui, heard, loopnum, said, onAtStart, spoke>>

(* Faulty variant of Wake: voiceOn is cleared after the pause instead of   *)
(* before it.                                                              *)
WakeClears ==
  /\ pc = "pause"
  /\ pc' = "read" /\ voiceOn' = FALSE
  /\ UNCHANGED <<net, lines, published, ui, heard, loopnum, said, onAtStart, spoke>>

(* Three seconds later.                                                    *)
Wake ==
  /\ pc = "pause"
  /\ pc' = "read"
  /\ UNCHANGED <<net, lines, published, ui, voiceOn, heard, loopnum, said, onAtStart, spoke>>

Voice == ReadText \/ Compare \/ EndPass \/ Wake

Next ==
  \/ Click \/ Execute \/ Login \/ StartTask \/ Connect \/ Lost \/ Receive
  \/ SetText \/ SetVoiceOn \/ Voice

Spec == Init /\ [][Next]_vars

(* Every thread of the application runs; nobody has to click, and neither  *)
(* a connection nor a list of names has to come.                           *)
Fairness ==
  /\ WF_vars(Execute) /\ WF_vars(Login) /\ WF_vars(StartTask) /\ WF_vars(Connect)
  /\ WF_vars(SetText) /\ WF_vars(SetVoiceOn) /\ WF_vars(Voice)

FairSpec == Spec /\ Fairness

-----------------------------------------------------------------------------
(* A pass that begins with voiceOn set speaks every name of the text it    *)
(* read: the flag is not lost in the middle of a pass (MainActivity.java:  *)
(* 228-252), although the user-interface thread writes it meanwhile.  And  *)
(* names are not repeated: beyond one pass at the beginning there are no   *)
(* more passes that speak than updates.                                    *)
PassSpeaksAll ==
  /\ pc = "pause" /\ onAtStart => said = heard
  /\ spoke <= updates + 1

(* An update that comes while the voice thread pauses is not lost: a later *)
(* pass speaks each name that the text had, unless a line without the name *)
(* came before.  (An update during a pass is lost, MainActivity.java:252.) *)
PauseUpdateSpoken ==
  \A n \in Names :
    pc = "pause" /\ voiceOn /\ ~setting /\ n \in txtMessage
      ~> (pc = "pass" /\ n \in said) \/ n \notin txtMessage

(* A click logs in once the connection stands, unless it breaks; the first *)
(* click seldom does, because its task has yet to connect.                 *)
ClickLogsIn ==
  executing > 0 /\ mTcpClient = "connected" /\ task = "reading"
    ~> loggedIn \/ task # "reading"
=============================================================================
