------------------------- MODULE EseTeeDemoProofs --------------------------
(***************************************************************************)
(* Machine-checked proofs about EseTeeDemo, for every number of options    *)
(* and every length of the answers.                                        *)
(***************************************************************************)
EXTENDS EseTeeDemo, Integers, TLAPS

-----------------------------------------------------------------------------
(* Types.  A channel is open wherever one is closed.                       *)

Counted ==
    /\ pc \in Points
    /\ left \in 0 .. MaxOptions
    /\ ret \in {"ok", "failed"}
    /\ spi \in {"off", "prio", "on"}
    /\ held \subseteq {"node", "context", "session", "input", "output"}
    /\ outSize \in 0 .. BIG_INT_LENGTH
    /\ cmd \in Commands \cup {"none"}
    /\ result \in {"success", "failed", "shortBuffer"}
    /\ channels \in 0 .. MaxChannels
    /\ pc \in Toggling \ {"openChannel"} => channels > 0

LEMMA CountedNext == Counted /\ [Next]_vars => Counted'
  <1> SUFFICES ASSUME Counted, [Next]_vars PROVE Counted'
      OBVIOUS
  <1> USE DemoAssumption DEF Counted, Points, Commands, Toggling, mainVars, teeVars,
          elementVars, toggleVars
  <1>1. ASSUME NEW c \in Commands, NEW len \in AnswerLens, NEW room, Answers(c, len, room)
        PROVE  /\ cmd' \in Commands
               /\ result' \in {"success", "shortBuffer"}
               /\ outSize' \in 0 .. BIG_INT_LENGTH
        BY <1>1 DEF Answers
  <1>2. ASSUME NEW c \in Commands, NEW room \in 0 .. BIG_INT_LENGTH, Fails(c, room)
        PROVE  /\ cmd' \in Commands
               /\ result' = "failed"
               /\ outSize' \in 0 .. BIG_INT_LENGTH
        BY <1>2 DEF Fails
  <1>3. CASE OpenNode \/ PowerOnPrio \/ ReleasePrio \/ PowerOff \/ CloseNode
        BY <1>3 DEF OpenNode, PowerOnPrio, ReleasePrio, PowerOff, CloseNode, SetSpiPower
  <1>4. CASE InitializeContext \/ OpenSession \/ AllocateInput \/ AllocateOutput
        BY <1>4 DEF InitializeContext, OpenSession, AllocateInput, AllocateOutput, Obtain
  <1>5. CASE ReleaseSharedMemory \/ CloseSession \/ FinalizeContext
        BY <1>5 DEF ReleaseSharedMemory, CloseSession, FinalizeContext, GiveBack
  <1>6. CASE getopt
        BY <1>6 DEF getopt
  <1>7. CASE SelfTest
        BY <1>1, <1>2, <1>7 DEF SelfTest
  <1>8. CASE HalTransmit
        BY <1>1, <1>2, <1>8 DEF HalTransmit
  <1>9. CASE OpenLogicalChannel
        BY <1>1, <1>2, <1>9 DEF OpenLogicalChannel, Proceed
  <1>10. CASE GetStatus
        BY <1>1, <1>2, <1>10 DEF GetStatus, Proceed
  <1>11. CASE SetStatus
        BY <1>1, <1>2, <1>11 DEF SetStatus, Proceed
  <1>12. CASE CheckStatus
        BY <1>1, <1>2, <1>12 DEF CheckStatus, Proceed
  <1>13. CASE CloseChannel
        BY <1>1, <1>2, <1>13 DEF CloseChannel
  <1>14. CASE StackSmashed
        BY <1>14 DEF StackSmashed
  <1>15. CASE UNCHANGED vars
        BY <1>15 DEF vars
  <1>16. QED
        BY <1>3, <1>4, <1>5, <1>6, <1>7, <1>8, <1>9, <1>10, <1>11, <1>12, <1>13, <1>14,
           <1>15 DEF Next

Flagged ==
    /\ resp6 \in BOOLEAN
    /\ active \in BOOLEAN
    /\ before \in [active : BOOLEAN, channels : 0 .. MaxChannels]
    /\ complete \in BOOLEAN
    /\ overrun \in BOOLEAN

LEMMA FlaggedNext == Counted /\ Flagged /\ [Next]_vars => Flagged'
  <1> SUFFICES ASSUME Counted, Flagged, [Next]_vars PROVE Flagged'
      OBVIOUS
  <1>1. overrun' \in BOOLEAN
    <2>1. CASE UNCHANGED overrun
          BY <2>1, Zenon DEF Flagged
    <2>2. CASE overrun' = FALSE
          BY <2>2, Zenon
    <2>3. CASE Copied
          BY <2>3, Zenon DEF Copied
    <2>4. QED
          BY <2>1, <2>2, <2>3, Zenon DEF Next, OpenNode, PowerOnPrio, ReleasePrio, PowerOff,
             CloseNode, SetSpiPower, InitializeContext, OpenSession, AllocateInput,
             AllocateOutput, Obtain, ReleaseSharedMemory, CloseSession, FinalizeContext,
             GiveBack, getopt, SelfTest, HalTransmit, StackSmashed, OpenLogicalChannel,
             GetStatus, SetStatus, CheckStatus, CloseChannel, vars, teeVars
  <1>2. CASE UNCHANGED <<active, resp6, before, complete>>
        BY <1>1, <1>2 DEF Flagged
  <1>3. CASE OpenLogicalChannel
    <2>1. before' \in [active : BOOLEAN, channels : 0 .. MaxChannels]
          BY <1>3 DEF OpenLogicalChannel, Counted, Flagged
    <2>2. active' \in BOOLEAN /\ resp6' \in BOOLEAN /\ complete' \in BOOLEAN
          BY <1>3, Zenon DEF OpenLogicalChannel, Flagged
    <2>3. QED
          BY <1>1, <2>1, <2>2 DEF Flagged
  <1>4. CASE GetStatus
        BY <1>1, <1>4, Zenon DEF GetStatus, Flagged, elementVars
  <1>5. CASE SetStatus
        BY <1>1, <1>5, Zenon DEF SetStatus, Flagged
  <1>6. QED
        BY <1>2, <1>3, <1>4, <1>5 DEF Next, OpenNode, PowerOnPrio, ReleasePrio, PowerOff,
           CloseNode, SetSpiPower, InitializeContext, OpenSession, AllocateInput,
           AllocateOutput, Obtain, ReleaseSharedMemory, CloseSession, FinalizeContext,
           GiveBack, getopt, SelfTest, HalTransmit, StackSmashed, CheckStatus, CloseChannel,
           vars, mainVars, teeVars, elementVars, toggleVars

(* Every variable keeps its type: the element never has fewer channels     *)
(* open than none, nor the shared operation a size beyond the block.       *)
THEOREM DemoTyping == Spec => []TypeOK
  <1>1. Init => Counted
        BY DemoAssumption DEF Init, Counted, Points, Toggling
  <1>2. Init => Flagged
    <2> SUFFICES ASSUME Init PROVE Flagged
        OBVIOUS
    <2>1. /\ active \in BOOLEAN /\ resp6 \in BOOLEAN
          /\ complete \in BOOLEAN /\ overrun \in BOOLEAN
          BY Zenon DEF Init
    <2>2. 0 \in 0 .. MaxChannels
          BY DemoAssumption
    <2>3. before \in [active : BOOLEAN, channels : 0 .. MaxChannels]
          BY <2>1, <2>2 DEF Init
    <2>4. QED
          BY <2>1, <2>3, Zenon DEF Flagged
  <1>3. Counted /\ Flagged => TypeOK
        BY Zenon DEF Counted, Flagged, TypeOK
  <1>4. QED
        BY <1>1, <1>2, <1>3, CountedNext, FlaggedNext, PTL DEF Spec

-----------------------------------------------------------------------------
(* What the program holds is told by where it is.                          *)

HeldAt ==
    CASE pc \in {"open", "exited"} -> {}
      [] pc \in {"powerPrio", "releasePrio", "initContext", "powerOff", "close"} -> {"node"}
      [] pc \in {"openSession", "cleanup2"} -> {"node", "context"}
      [] pc \in {"allocInput", "cleanup3"} -> {"node", "context", "session"}
      [] pc = "allocOutput" -> {"node", "context", "session", "input"}
      [] OTHER -> {"node", "context", "session", "input", "output"}

GivenBackInv ==
    /\ pc # "crashed" => held = HeldAt
    /\ pc = "open" => spi = "off"
    /\ pc \in {"close", "exited"} /\ spi # "off" => ret = "failed"

LEMMA GivenBackInvNext == GivenBackInv /\ [Next]_vars => GivenBackInv'
  <1> SUFFICES ASSUME GivenBackInv, [Next]_vars PROVE GivenBackInv'
      OBVIOUS
  <1> USE DEF GivenBackInv, HeldAt, mainVars, teeVars, elementVars, toggleVars
  <1>1. CASE OpenNode
        BY <1>1 DEF OpenNode
  <1>2. CASE PowerOnPrio
        BY <1>2 DEF PowerOnPrio, SetSpiPower
  <1>3. CASE ReleasePrio
        BY <1>3 DEF ReleasePrio, SetSpiPower
  <1>4. CASE PowerOff
        BY <1>4 DEF PowerOff, SetSpiPower
  <1>5. CASE CloseNode
        BY <1>5 DEF CloseNode
  <1>6. CASE InitializeContext \/ OpenSession \/ AllocateInput \/ AllocateOutput
        BY <1>6 DEF InitializeContext, OpenSession, AllocateInput, AllocateOutput, Obtain
  <1>7. CASE ReleaseSharedMemory \/ CloseSession \/ FinalizeContext
        BY <1>7 DEF ReleaseSharedMemory, CloseSession, FinalizeContext, GiveBack
  <1>8. CASE getopt
        BY <1>8 DEF getopt
  <1>9. CASE SelfTest \/ HalTransmit \/ CloseChannel
        BY <1>9 DEF SelfTest, HalTransmit, CloseChannel
  <1>10. CASE OpenLogicalChannel \/ GetStatus \/ SetStatus \/ CheckStatus
        BY <1>10 DEF OpenLogicalChannel, GetStatus, SetStatus, CheckStatus, Proceed
  <1>11. CASE StackSmashed
        BY <1>11 DEF StackSmashed
  <1>12. CASE UNCHANGED vars
        BY <1>12 DEF vars
  <1>13. QED
        BY <1>1, <1>2, <1>3, <1>4, <1>5, <1>6, <1>7, <1>8, <1>9, <1>10, <1>11, <1>12
        DEF Next

(* A program that ends without a crash has given everything back, and the  *)
(* element is off unless the last ioctl failed, for every command line.    *)
THEOREM AllGivenBack == Spec => []GivenBack
  <1>1. Init => GivenBackInv
        BY DEF Init, GivenBackInv, HeldAt
  <1>2. GivenBackInv => GivenBack
        BY DEF GivenBackInv, HeldAt, GivenBack
  <1>3. QED
        BY <1>1, <1>2, GivenBackInvNext, PTL DEF Spec

-----------------------------------------------------------------------------
(* The command line's -c, from step to step.                               *)

Obtaining == {"open", "powerPrio", "releasePrio", "initContext", "openSession",
              "allocInput", "allocOutput"}

ToggleInv ==
    /\ active \in BOOLEAN /\ resp6 \in BOOLEAN /\ before.active \in BOOLEAN
    /\ channels \in Int /\ before.channels \in Int
    /\ pc \in Obtaining => cmd = "none"
    /\ pc \in {"getStatus", "setStatus"} /\ complete =>
          active = before.active /\ channels = before.channels + 1
    /\ pc = "setStatus" /\ complete => resp6 = active
    /\ pc \in {"checkStatus", "closeChannel"} /\ complete =>
          active = ~before.active /\ channels = before.channels + 1
    /\ Toggled

LEMMA ToggleInvNext == ToggleInv /\ [Next]_vars => ToggleInv'
  <1> SUFFICES ASSUME ToggleInv, [Next]_vars PROVE ToggleInv'
      OBVIOUS
  <1> USE DEF ToggleInv, Toggled, Obtaining, mainVars, teeVars, elementVars, toggleVars
  <1>1. CASE OpenNode \/ PowerOnPrio \/ ReleasePrio \/ PowerOff \/ CloseNode
        BY <1>1 DEF OpenNode, PowerOnPrio, ReleasePrio, PowerOff, CloseNode, SetSpiPower
  <1>2. CASE InitializeContext \/ OpenSession \/ AllocateInput \/ AllocateOutput
        BY <1>2 DEF InitializeContext, OpenSession, AllocateInput, AllocateOutput, Obtain
  <1>3. CASE ReleaseSharedMemory \/ CloseSession \/ FinalizeContext
        BY <1>3 DEF ReleaseSharedMemory, CloseSession, FinalizeContext, GiveBack
  <1>4. CASE getopt
        BY <1>4 DEF getopt
  <1>5. CASE SelfTest \/ HalTransmit
        BY <1>5 DEF SelfTest, HalTransmit, Answers, Fails
  <1>6. CASE OpenLogicalChannel
    <2>1. before'.active = active /\ before'.channels = channels /\ active' = active
      <3>1. before' = [active |-> active, channels |-> channels]
            BY <1>6, Zenon DEF OpenLogicalChannel
      <3>2. active' = active
            BY <1>6, Zenon DEF OpenLogicalChannel
      <3>3. QED
            BY <3>1, <3>2, Zenon
    <2>2. active \in BOOLEAN /\ active' \in BOOLEAN /\ before'.active \in BOOLEAN
          BY <2>1, Zenon
    <2>3. channels' \in Int /\ before'.channels \in Int /\ resp6' \in BOOLEAN
      <3>1. before'.channels \in Int
            BY <2>1, Zenon
      <3>2. channels' \in Int
            BY <1>6 DEF OpenLogicalChannel
      <3>3. resp6' \in BOOLEAN
            BY <1>6, Zenon DEF OpenLogicalChannel
      <3>4. QED
            BY <3>1, <3>2, <3>3
    <2>4. pc' \in {"getStatus", "getopt"} /\ cmd' = "OPEN_LOGICAL_CHANNEL"
          BY <1>6 DEF OpenLogicalChannel, Proceed, Answers, Fails
    <2>5. pc' = "getStatus" => channels' = channels + 1
          BY <1>6 DEF OpenLogicalChannel, Proceed, Fails
    <2>6. pc' = "getStatus" => active' = before'.active /\ channels' = before'.channels + 1
      <3>1. active' = before'.active
            BY <2>1, Zenon
      <3>2. QED
            BY <2>1, <2>5, <3>1, Zenon
    <2>7. QED
      <3>1. /\ Obtaining \cap {"getStatus", "getopt"} = {}
            /\ "getStatus" \notin {"setStatus", "checkStatus", "closeChannel"}
            BY DEF Obtaining
      <3>2. pc' \notin Obtaining /\ pc' \notin {"setStatus", "checkStatus", "closeChannel"}
            BY <2>4
      <3>3. cmd' # "CLOSE_CHANNEL"
            BY <2>4
      <3>4. QED
            BY <2>2, <2>3, <2>6, <3>2, <3>3, Zenon
  <1>7. CASE GetStatus
        BY <1>7 DEF GetStatus, Proceed, Answers, Fails
  <1>8. CASE SetStatus
        BY <1>8 DEF SetStatus, Proceed, Answers, Fails
  <1>9. CASE CheckStatus
        BY <1>9 DEF CheckStatus, Proceed, Answers, Fails
  <1>10. CASE CloseChannel
        BY <1>10 DEF CloseChannel, Answers, Fails
  <1>11. CASE StackSmashed
        BY <1>11 DEF StackSmashed
  <1>12. CASE UNCHANGED vars
        BY <1>12 DEF vars
  <1>13. QED
        BY <1>1, <1>2, <1>3, <1>4, <1>5, <1>6, <1>7, <1>8, <1>9, <1>10, <1>11, <1>12
        DEF Next

(* A -c that succeeds, the element having done what it was asked, toggles  *)
(* the applet once and leaves no channel open.                             *)
THEOREM ToggledOnce == Spec => []Toggled
  <1>1. Init => ToggleInv
    <2> SUFFICES ASSUME Init PROVE ToggleInv
        OBVIOUS
    <2>1. before.active = active /\ before.channels = 0
          BY Zenon DEF Init
    <2>2. active \in BOOLEAN /\ before.active \in BOOLEAN
          BY <2>1, Zenon DEF Init
    <2>3. pc = "open" /\ cmd = "none" /\ complete = FALSE /\ resp6 \in BOOLEAN
          BY DEF Init
    <2>4. channels \in Int /\ before.channels \in Int
          BY <2>1 DEF Init
    <2>5. QED
          BY <2>2, <2>3, <2>4, Zenon DEF ToggleInv, Toggled, Obtaining
  <1>2. ToggleInv => Toggled
        BY DEF ToggleInv
  <1>3. QED
        BY <1>1, <1>2, ToggleInvNext, PTL DEF Spec

-----------------------------------------------------------------------------
(* A block of BIG_INT_LENGTH has room for every answer.                    *)
LEMMA ShortBufferNext == ShortBufferOnlyAtStart /\ [Next]_vars => ShortBufferOnlyAtStart'
  <1> SUFFICES ASSUME ShortBufferOnlyAtStart, [Next]_vars PROVE ShortBufferOnlyAtStart'
      OBVIOUS
  <1> USE DEF ShortBufferOnlyAtStart
  <1>1. ASSUME NEW c, NEW len \in AnswerLens, Answers(c, len, BIG_INT_LENGTH)
        PROVE  result' = "success"
        BY <1>1, DemoAssumption DEF Answers
  <1>2. CASE UNCHANGED <<cmd, result>>
        BY <1>2
  <1>3. CASE SelfTest \/ OpenLogicalChannel
        BY <1>3 DEF SelfTest, OpenLogicalChannel, Answers, Fails
  <1>4. CASE HalTransmit \/ GetStatus \/ SetStatus \/ CheckStatus \/ CloseChannel
        BY <1>1, <1>4 DEF HalTransmit, GetStatus, SetStatus, CheckStatus, CloseChannel, Fails
  <1>5. QED
        BY <1>2, <1>3, <1>4 DEF Next, OpenNode, PowerOnPrio, ReleasePrio, PowerOff,
           CloseNode, SetSpiPower, InitializeContext, OpenSession, AllocateInput,
           AllocateOutput, Obtain, ReleaseSharedMemory, CloseSession, FinalizeContext,
           GiveBack, getopt, StackSmashed, vars, teeVars

(* What one option leaves in the shared operation never fails a command in *)
(* the middle of another.                                                  *)
THEOREM ShortBufferSeldom == Spec => []ShortBufferOnlyAtStart
  <1>1. Init => ShortBufferOnlyAtStart
        BY DEF Init, ShortBufferOnlyAtStart
  <1>2. QED
        BY <1>1, ShortBufferNext, PTL DEF Spec
=============================================================================
