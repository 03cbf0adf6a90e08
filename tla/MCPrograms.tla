------------------------------ MODULE MCPrograms ------------------------------
(***************************************************************************)
(* Finite instances of the programs around the server, in one run: a       *)
(* behaviour is a behaviour of one of them, which the initial state        *)
(* chooses, and the variables of the others stay as they are.              *)
(***************************************************************************)
EXTENDS ImageClient

CONSTANTS
  MaxStarts,                     \* of HintClient
  PeopleDB, MaxClicks, MaxLists, \* of VoiceClient
  SinkRoom                       \* the room of ImageSink

ASSUME BoundsAssumption == {MaxStarts, MaxClicks, MaxLists} \subseteq Nat
ASSUME PeopleAssumption == PeopleDB \in Seq(STRING)

VARIABLES
  program,    \* the program that runs
  \* HintClient
  hint_sock, hint_reading, hint_closing, hint_start, waits, fired, aborted, io,
  hint_main, starts,
  \* VoiceClient
  clicks, executing, sending, tasks, task, mTcpClient, loggedIn, lists, begun,
  partial, published, txtMessage, setting, voiceOn, pc, heard, loopnum, said,
  onAtStart, updates, spoke,
  \* ImageSink
  m_queue, m_is_running, window, image, sink_closing, streaming

Hint ==
  INSTANCE HintClient WITH
    sock <- hint_sock, reading <- hint_reading,
    closing <- hint_closing, m_start <- hint_start, main <- hint_main

Voice == INSTANCE VoiceClient

Sink == INSTANCE ImageSink WITH Room <- SinkRoom, pc <- window, closing <- sink_closing

image_vars == vars
hint_vars ==
  <<hint_sock, hint_reading, hint_closing, hint_start, waits, fired, aborted, io,
    hint_main, starts>>
voice_vars ==
  <<clicks, executing, sending, tasks, task, mTcpClient, loggedIn, lists, begun,
    partial, published, txtMessage, setting, voiceOn, pc, heard, loopnum, said,
    onAtStart, updates, spoke>>
sink_vars == <<m_queue, m_is_running, window, image, sink_closing, streaming>>

(* Values of the constants.                                                *)
TwoPeople == <<"Jimmy", "Lin">>

ProgramsInit ==
  /\ program \in {"image-client", "hint-client", "voice client", "image sink"}
  /\ Init /\ Hint!Init /\ Voice!Init /\ Sink!Init

ProgramsNext ==
  \/ /\ program = "image-client" /\ Next
     /\ UNCHANGED <<program, hint_vars, voice_vars, sink_vars>>
  \/ /\ program = "hint-client" /\ Hint!Next
     /\ UNCHANGED <<program, image_vars, voice_vars, sink_vars>>
  \/ /\ program = "voice client" /\ Voice!Next
     /\ UNCHANGED <<program, image_vars, hint_vars, sink_vars>>
  \/ /\ program = "image sink" /\ Sink!Next
     /\ UNCHANGED <<program, image_vars, hint_vars, voice_vars>>

ImageRuns == program = "image-client"
HintRuns  == program = "hint-client"
VoiceRuns == program = "voice client"
SinkRuns  == program = "image sink"

(* The fairness of each program, while it is the one that runs.            *)
ProgramsFairness ==
  /\ WF_image_vars(ImageRuns /\ OnImageArrived) /\ WF_image_vars(ImageRuns /\ Connected)
  /\ WF_image_vars(ImageRuns /\ OnImageStart) /\ WF_image_vars(ImageRuns /\ OnImageStop)
  /\ WF_image_vars(ImageRuns /\ Written) /\ WF_image_vars(ImageRuns /\ WriteFailed)
  /\ WF_image_vars(ImageRuns /\ ReadFailed)
  /\ WF_image_vars(ImageRuns /\ RunClose) /\ WF_image_vars(ImageRuns /\ Join)
  /\ WF_hint_vars(HintRuns /\ Hint!Connected) /\ SF_hint_vars(HintRuns /\ Hint!RunClose)
  /\ SF_hint_vars(HintRuns /\ Hint!ReadFailed) /\ SF_hint_vars(HintRuns /\ Hint!RunAborted)
  /\ WF_hint_vars(HintRuns /\ Hint!RunFired) /\ WF_hint_vars(HintRuns /\ Hint!IoCancel)
  /\ WF_hint_vars(HintRuns /\ Hint!IoWait) /\ WF_hint_vars(HintRuns /\ Hint!IoEnds)
  /\ WF_hint_vars(HintRuns /\ Hint!Expire) /\ WF_hint_vars(HintRuns /\ Hint!StartCancel)
  /\ WF_hint_vars(HintRuns /\ Hint!StartWait) /\ WF_hint_vars(HintRuns /\ Hint!Join)
  /\ WF_voice_vars(VoiceRuns /\ Voice!Execute) /\ WF_voice_vars(VoiceRuns /\ Voice!Login)
  /\ WF_voice_vars(VoiceRuns /\ Voice!StartTask) /\ WF_voice_vars(VoiceRuns /\ Voice!Connect)
  /\ WF_voice_vars(VoiceRuns /\ Voice!SetText)
  /\ WF_voice_vars(VoiceRuns /\ Voice!SetVoiceOn) /\ WF_voice_vars(VoiceRuns /\ Voice!Voice)
  /\ WF_sink_vars(SinkRuns /\ Sink!Window) /\ WF_sink_vars(SinkRuns /\ Sink!Joined)

ProgramsSpec ==
  /\ ProgramsInit
  /\ [][ProgramsNext]_<<program, image_vars, hint_vars, voice_vars, sink_vars>>
  /\ ProgramsFairness

-----------------------------------------------------------------------------
(* What the other modules state, the invariants with their types; and      *)
(* every program ends when it is closed, as far as the three say.          *)
ChainAlive == Hint!TypeOK /\ Hint!ChainAlive
PassSpeaksAll == Voice!TypeOK /\ Voice!PassSpeaksAll
PauseUpdateSpoken == Voice!PauseUpdateSpoken
ClickLogsIn == Voice!ClickLogsIn
ProgramsEnd ==
  ExitEnds /\ Hint!ExitEndsIfStopped /\ []Sink!TypeOK /\ Sink!CloseEnds
=============================================================================
