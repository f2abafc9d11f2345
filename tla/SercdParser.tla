---------------------------- MODULE SercdParser ----------------------------
(***************************************************************************)
(* sercd.c, byte by byte: EscRedirectChar cuts the client's stream into    *)
(* data and commands, HandleIACCommand and HandleCPCCommand carry the      *)
(* commands out, EscWriteChar escapes what goes to the client.  The client *)
(* sends items (a byte of data, an option, a COM port command) as RFC 854  *)
(* and RFC 2217 write them; in between the device sends bytes, its control *)
(* lines change, and the client may leave, in the middle of an item too,   *)
(* and another one come.  Of the options BINARY and COM PORT are supported *)
(* here, and a signature has no text.                                      *)
(***************************************************************************)
EXTENDS SercdPort, FiniteSets

SeqExt == INSTANCE SequencesExt

CONSTANTS
    SizeofLong,     \* sizeof(unsigned long): 4 or 8, by the ABI
    Data,           \* bytes of data, in both directions
    Opened,         \* settings the device may have when it is opened
    Params,         \* Params[command]: parameters, sequences of bytes
    Lines,          \* control lines of the device that may change
    MaxItems,       \* bound: items of the clients, bytes of the device
    MaxLines,       \* bound: changes of the control lines
    MaxClients      \* bound: clients after each other

Commands == 0..12
CTS == 16  DSR == 32  RING == 64  RLSD == 128       \* TNCOM_MODMASK_*
Bytes == 0..255

\* The parameters have the length that RFC 2217 gives the command: any for the
\* signature, none for the two that suspend and resume, one byte for the others
\* but the speed.  The client asks for no speed with two bytes 255 in it.
ASSUME ParserAssumption ==
    /\ SizeofLong \in {4, 8} /\ Data \subseteq Bytes /\ DOMAIN Params = Commands
    /\ \A c \in Commands : \A p \in Params[c] :
          /\ p \in Seq(Bytes)
          /\ c # 0 => Len(p) = IF c = 1 THEN 4 ELSE IF c \in {8, 9} THEN 0 ELSE 1
          /\ c = 1 => \A i, j \in 1..4 : p[i] = 255 /\ p[j] = 255 => i = j
    /\ Opened \subseteq InitialPorts /\ Lines \subseteq {CTS, DSR, RING, RLSD}
    /\ MaxItems \in Nat /\ MaxLines \in Nat /\ MaxClients \in Nat \ {0}

SE == 240  SB == 250  WILL == 251  WONT == 252  DO == 253  DONT == 254  IAC == 255
BINARY == 0  COMPORT == 44
LF == 10  CR == 13

VARIABLES
    IACEscape, IACSigEscape, IACCommand, Last,  \* of EscRedirectChar
    LastOut,                                    \* Last of EscWriteChar
    is_will, is_do, sent_will, sent_do,         \* of tnstate
    port, ModemStateMask, LineStateMask, InputFlow, BreakSignaled,
    ModemState,                                 \* the bits that are set
    initialport,                                \* initialportsettings, made raw
    lines,                                      \* the control lines that are on
    toDev, toNet,       \* what the last byte put into ToDevBuf and ToNetBuf
    pending, current,   \* bytes of the client's item still to come, the item
    devGot,             \* bytes the device got during the item
    told,               \* the replies' last word on each setting, and on each line
    aligned,            \* the client came when the parser was between two items
    items, changes, clients

parser == <<IACEscape, IACSigEscape, IACCommand, Last>>
options == <<is_will, is_do, sent_will, sent_do>>
settings == <<port, ModemStateMask, LineStateMask, InputFlow, BreakSignaled>>
statics == <<parser, LastOut, settings, ModemState>>
bounds == <<items, changes, clients>>
vars == <<statics, options, initialport, lines, toDev, toNet, pending, current,
          devGot, told, aligned, bounds>>

\* What the client is told of: by command, and the break apart from the control.
Known == {1, 2, 3, 4, 5, 10, 11, 50, 107}

NoItem == [kind |-> "none", bytes |-> << >>, data |-> << >>]

\* A client is connected and the initial options are sent.
Init ==
    /\ IACEscape = "Normal" /\ IACSigEscape = "Normal" /\ IACCommand = << >>
    /\ Last = 0 /\ LastOut = 0
    /\ is_will = {} /\ is_do = {}
    /\ sent_will = {BINARY} /\ sent_do = {BINARY, COMPORT}
    /\ port \in Opened /\ ModemStateMask = 255 /\ LineStateMask = 0
    /\ InputFlow = TRUE /\ BreakSignaled = FALSE
    /\ ModemState = {} /\ initialport = port /\ lines = {}
    /\ toDev = << >> /\ toNet = << >> /\ pending = << >> /\ current = NoItem
    /\ devGot = << >> /\ told = [k \in Known |-> << >>] /\ aligned = TRUE
    /\ items = 0 /\ changes = 0 /\ clients = 1

-----------------------------------------------------------------------------
(* to the client                                                           *)

EscapedBug(C, last) ==                                  \* an IAC is not escaped
    IF C # LF /\ BINARY \notin is_will /\ last = CR THEN <<0, C>> ELSE <<C>>
EscapedCostBug(C, last) ==                              \* an IAC may get a NUL too
    (IF C # LF /\ BINARY \notin is_will /\ last = CR THEN <<0>> ELSE << >>)
        \o (IF C = IAC THEN <<IAC, IAC>> ELSE <<C>>)

\* What EscWriteChar writes of C after last: an IAC twice, a NUL after a CR that
\* is neither followed by LF nor sent as BINARY.
Escaped(C, last) ==
    IF C = IAC THEN <<IAC, IAC>>
    ELSE IF C # LF /\ BINARY \notin is_will /\ last = CR THEN <<0, C>>
    ELSE <<C>>

EscWriteChar(C) == Escaped(C, LastOut)

\* SendStr, SendBaudRate, SendCPCByteCommand: EscWriteChar of each byte.
EscapedAll(bytes) ==
    SeqExt!FlattenSeq([i \in 1..Len(bytes) |->
                   Escaped(bytes[i], IF i = 1 THEN LastOut ELSE bytes[i - 1])])

SendCommand(code, bytes) ==
    /\ toNet' = <<IAC, SB, COMPORT, code>> \o EscapedAll(bytes) \o <<IAC, SE>>
    /\ LastOut' = IF bytes = << >> THEN LastOut ELSE bytes[Len(bytes)]

SendNothing == toNet' = << >> /\ UNCHANGED LastOut

\* On a 64-bit ABI the value is followed by four bytes of zero.
BaudBytes(speed) ==
    IF SizeofLong = 8 THEN speed \o <<0, 0, 0, 0>> ELSE speed

-----------------------------------------------------------------------------
(* COM port commands: HandleCPCCommand                                     *)

\* The lines of a modem mask.
Masked(mask) == {l \in Lines : (mask \div l) % 2 = 1}

And16Bug(v) == v
And16(v) == IF (v \div 16) % 2 = 1 THEN 16 ELSE 0

\* The reply to a command tells the setting in force after it.
Tell(cmd, key, value) ==
    /\ SendCommand(100 + cmd, <<value>>)
    /\ told' = [told EXCEPT ![key] = <<value>>]

\* A parameter of 0 only asks.
SetBaudRate(v) ==
    /\ port' = IF v = <<0, 0, 0, 0>> THEN port ELSE SetPortSpeed(port, v)
    /\ SendCommand(101, BaudBytes(GetPortSpeed(port')))
    /\ told' = [told EXCEPT ![1] = <<GetPortSpeed(port')>>]
    /\ UNCHANGED <<ModemStateMask, LineStateMask, InputFlow, BreakSignaled>>

SetDataSizeBug(v) ==                                    \* the reply echoes the request
    /\ port' = IF v = 0 THEN port ELSE SetPortDataSize(port, v)
    /\ Tell(2, 2, IF v = 0 THEN GetPortDataSize(port) ELSE v)
    /\ UNCHANGED <<ModemStateMask, LineStateMask, InputFlow, BreakSignaled>>

SetDataSize(v) ==
    /\ port' = IF v = 0 THEN port ELSE SetPortDataSize(port, v)
    /\ Tell(2, 2, GetPortDataSize(port'))
    /\ UNCHANGED <<ModemStateMask, LineStateMask, InputFlow, BreakSignaled>>

SetParity(v) ==
    /\ port' = IF v = 0 THEN port ELSE SetPortParity(port, v)
    /\ Tell(3, 3, GetPortParity(port'))
    /\ UNCHANGED <<ModemStateMask, LineStateMask, InputFlow, BreakSignaled>>

SetStopSize(v) ==
    /\ port' = IF v = 0 THEN port ELSE SetPortStopSize(port, v)
    /\ Tell(4, 4, GetPortStopSize(port'))
    /\ UNCHANGED <<ModemStateMask, LineStateMask, InputFlow, BreakSignaled>>

\* 0, 7, 10 and 13 ask for a state; 4, 5 and 6 ask for the break, set and clear
\* it; everything else sets, and its reply is the flow control (without
\* CiscoIOSCompatible, which is off).
SetControl(v) ==
    /\ port' = IF v \in {0, 4, 5, 6, 7, 10, 13} THEN port ELSE SetPortFlowControl(port, v)
    /\ BreakSignaled' = IF v \in {5, 6} THEN v = 5 ELSE BreakSignaled
    /\ IF v \in {4, 5, 6} THEN Tell(5, 50, IF BreakSignaled' THEN 5 ELSE 6)
       ELSE IF v \in {7, 10, 13}
         THEN /\ SendCommand(105, <<GetPortFlowControl(port, v, DSR \in lines, CTS \in lines)>>)
              /\ UNCHANGED told
       ELSE Tell(5, 5, GetPortFlowControl(port', 0, FALSE, FALSE))
    /\ UNCHANGED <<ModemStateMask, LineStateMask, InputFlow>>

SetMasks(cmd, v) ==
    /\ LineStateMask' = IF cmd = 10 THEN And16(v) ELSE LineStateMask
    /\ ModemStateMask' = IF cmd = 11 THEN v ELSE ModemStateMask
    /\ SendCommand(100 + cmd, <<IF cmd = 10 THEN LineStateMask' ELSE v>>)
    /\ told' = [told EXCEPT ![cmd] = <<IF cmd = 10 THEN LineStateMask' ELSE v>>,
                            ![107] = [l \in DOMAIN @ \cap Masked(ModemStateMask') |-> @[l]]]
    /\ UNCHANGED <<port, InputFlow, BreakSignaled>>

\* A signature without a text asks for the server's, of which "sercd" stands here.
SigStr == <<115, 101, 114, 99, 100>>
Signature(size) ==
    /\ IF size = 6 THEN SendCommand(100, SigStr) ELSE SendNothing
    /\ UNCHANGED <<settings, told>>

HandleCPCCommand(command) ==
    LET cmd == command[4]
        v == command[5]
    IN  CASE cmd = 0 -> Signature(Len(command))
          [] cmd = 1 -> SetBaudRate(SubSeq(command, 5, 8))
          [] cmd = 2 -> SetDataSize(v)
          [] cmd = 3 -> SetParity(v)
          [] cmd = 4 -> SetStopSize(v)
          [] cmd = 5 -> SetControl(v)
          [] cmd \in {10, 11} -> SetMasks(cmd, v)
          [] cmd = 12 -> /\ SendCommand(112, <<v>>)            \* SetFlush
                         /\ UNCHANGED <<settings, told>>
          [] cmd \in {8, 9} -> /\ InputFlow' = (cmd = 9)
                               /\ SendNothing
                               /\ UNCHANGED <<port, ModemStateMask, LineStateMask,
                                              BreakSignaled, told>>
          [] OTHER -> SendNothing /\ UNCHANGED <<settings, told>>

SendIf(condition, verb, o) ==
    /\ toNet' = IF condition THEN <<IAC, verb, o>> ELSE << >>
    /\ UNCHANGED <<LastOut, settings, told>>

\* A suboption of an option that is in use, or a verb for an option: others than
\* the two are refused.
HandleIACCommand(command) ==
    LET verb == command[2]
        o == command[3]
        supported == o \in {BINARY, COMPORT}
    IN  \/ /\ verb = SB
           /\ IF o \in is_will \cup is_do /\ o = COMPORT
                THEN HandleCPCCommand(command)
                ELSE SendNothing /\ UNCHANGED <<settings, told>>
           /\ UNCHANGED options
        \/ /\ verb = WILL
           /\ SendIf(o \notin sent_do, IF supported THEN DO ELSE DONT, o)
           /\ is_do' = IF supported THEN is_do \cup {o} ELSE is_do
           /\ sent_do' = sent_do \ {o}
           /\ UNCHANGED <<is_will, sent_will>>
        \/ /\ verb = DO
           /\ SendIf(o \notin sent_will, IF supported THEN WILL ELSE WONT, o)
           /\ is_will' = IF supported THEN is_will \cup {o} ELSE is_will
           /\ sent_will' = sent_will \ {o}
           /\ UNCHANGED <<is_do, sent_do>>
        \/ /\ verb = DONT /\ SendIf(o \in is_will, WONT, o)
           /\ is_will' = is_will \ {o} /\ sent_will' = sent_will \ {o}
           /\ UNCHANGED <<is_do, sent_do>>
        \/ /\ verb = WONT /\ SendIf(o \in is_do, DONT, o)
           /\ is_do' = is_do \ {o} /\ sent_do' = sent_do \ {o}
           /\ UNCHANGED <<is_will, sent_will>>
        \/ /\ verb \notin {SB, WILL, DO, DONT, WONT}
           /\ SendNothing /\ UNCHANGED <<options, settings, told>>

-----------------------------------------------------------------------------
(* from the client: EscRedirectChar                                        *)

Quiet == SendNothing /\ UNCHANGED <<options, settings, told>>
ToDevice(bytes) == toDev' = bytes /\ devGot' = devGot \o bytes
Collect(C) == IACCommand' = Append(IACCommand, C)

NormalCharBug(C) ==                                     \* NUL after CR is data
    /\ IF C = IAC
         THEN IACEscape' = "Received" /\ ToDevice(<< >>)
         ELSE UNCHANGED IACEscape /\ ToDevice(<<C>>)
    /\ UNCHANGED <<IACCommand, IACSigEscape>> /\ Quiet

\* Data, but for the first byte of an IAC and, without BINARY, a NUL after a CR.
NormalChar(C) ==
    /\ IF C = IAC
         THEN IACEscape' = "Received" /\ ToDevice(<< >>)
         ELSE /\ UNCHANGED IACEscape
              /\ ToDevice(IF BINARY \notin is_do /\ C = 0 /\ Last = CR
                            THEN << >> ELSE <<C>>)
    /\ UNCHANGED <<IACCommand, IACSigEscape>> /\ Quiet

\* After an IAC: an escaped byte, or the command.
ReceivedChar(C) ==
    /\ IF C = IAC
         THEN /\ IACEscape' = "Normal" /\ ToDevice(<<C>>)
              /\ UNCHANGED <<IACCommand, IACSigEscape>>
         ELSE /\ IACEscape' = "Command" /\ ToDevice(<< >>)
              /\ IACCommand' = <<IAC, C>> /\ IACSigEscape' = "Normal"
    /\ Quiet

\* The length at which a command is complete: by its verb and its code.
Length(command) ==
    IF command[2] # SB THEN 3
    ELSE IF command[4] = 1 THEN 10
    ELSE IF command[4] \in {8, 9} THEN 6
    ELSE 7

\* A command of fixed length, its parameter as it comes: an escaped parameter
\* counts for two.
FixedChar(C) ==
    /\ Collect(C)
    /\ IF (IACCommand'[2] = SB => Len(IACCommand) >= 4) /\ Len(IACCommand') = Length(IACCommand')
         THEN IACEscape' = "Normal" /\ HandleIACCommand(IACCommand')
         ELSE UNCHANGED IACEscape /\ Quiet
    /\ UNCHANGED IACSigEscape

\* A signature ends at its IAC SE.  (Its length is cut to TmpStrLen.)
SignatureChar(C) ==
    IF IACSigEscape = "Normal" /\ C = IAC
      THEN IACSigEscape' = "Received" /\ UNCHANGED <<IACCommand, IACEscape>> /\ Quiet
    ELSE IF IACSigEscape = "Received" /\ C # IAC
      THEN /\ IACCommand' = IACCommand \o <<IAC, C>>
           /\ IACEscape' = "Normal" /\ HandleIACCommand(IACCommand')
           /\ UNCHANGED IACSigEscape
    ELSE /\ Collect(C) /\ IACSigEscape' = "Normal"
         /\ UNCHANGED IACEscape /\ Quiet

CommandChar(C) ==
    /\ ToDevice(<< >>)
    /\ IF IACCommand[2] = SB /\ Len(IACCommand) >= 4 /\ IACCommand[4] = 0
         THEN SignatureChar(C) ELSE FixedChar(C)

EscRedirectChar(C) ==
    /\ CASE IACEscape = "Normal" -> NormalChar(C)
         [] IACEscape = "Received" -> ReceivedChar(C)
         [] IACEscape = "Command" -> CommandChar(C)
    /\ Last' = C

-----------------------------------------------------------------------------
(* the client and the device                                               *)

EscapeParam(bytes) == SeqExt!FlattenSeq([i \in 1..Len(bytes) |->
                          IF bytes[i] = IAC THEN <<IAC, IAC>> ELSE <<bytes[i]>>])

DataItem(b) ==
    [kind |-> "data", data |-> <<b>>,
     bytes |-> IF b = IAC THEN <<IAC, IAC>>
               ELSE IF b = CR /\ BINARY \notin is_do THEN <<CR, 0>> ELSE <<b>>]
OptionItem(verb, o) == [kind |-> "option", data |-> << >>, bytes |-> <<IAC, verb, o>>]
CommandItem(cmd, param) ==
    [kind |-> "command", data |-> param,
     bytes |-> <<IAC, SB, COMPORT, cmd>> \o EscapeParam(param) \o <<IAC, SE>>]

NextSteps == UNCHANGED <<initialport, lines, aligned, changes, clients>>

\* The client begins an item when the one before it is all read.  It uses the
\* COM port commands only after the option.
ClientSends ==
    /\ pending = << >> /\ items < MaxItems /\ items' = items + 1
    /\ \/ \E b \in Data : current' = DataItem(b)
       \/ \E verb \in {WILL, WONT, DO, DONT}, o \in {BINARY, COMPORT} :
             current' = OptionItem(verb, o)
       \/ /\ COMPORT \in is_do
          /\ \E cmd \in Commands : \E param \in Params[cmd] :
                current' = CommandItem(cmd, param)
    /\ pending' = current'.bytes /\ devGot' = << >>
    /\ toDev' = << >> /\ toNet' = << >>
    /\ NextSteps /\ UNCHANGED <<statics, options, told>>

\* The main loop reads one byte of the client.
ReadNet ==
    /\ pending # << >> /\ pending' = Tail(pending)
    /\ EscRedirectChar(Head(pending))
    /\ NextSteps /\ UNCHANGED <<ModemState, current, items>>

\* The main loop reads one byte of the device, unless the client suspended it.
ReadDev ==
    /\ InputFlow
    /\ items < MaxItems /\ items' = items + 1
    /\ \E b \in Data : toNet' = EscWriteChar(b) /\ LastOut' = b
    /\ toDev' = << >>
    /\ NextSteps
    /\ UNCHANGED <<parser, options, settings, ModemState, told, pending, current, devGot>>

\* The control lines change.
LinesChange ==
    /\ changes < MaxLines /\ changes' = changes + 1
    /\ \E on \in SUBSET Lines \ {lines} : lines' = on
    /\ UNCHANGED <<statics, options, initialport, toDev, toNet, pending, current,
                   devGot, told, aligned, items, clients>>

\* The lines that are on, and for each that differs from before its delta bit.
GetModemState(before) ==
    lines \cup {l \div 16 : l \in {k \in Lines : (k \in lines) # (k \in before)}}

\* The byte with the bits in bits.
Byte(bits) ==
    LET bit(b) == IF b \in bits THEN b ELSE 0
    IN  bit(1) + bit(2) + bit(4) + bit(8) + bit(16) + bit(32) + bit(64) + bit(128)

RememberBug(newstate) == UNCHANGED ModemState           \* compares with the first state
Remember(newstate) == ModemState' = newstate

Differs(masked) == lines \cap masked # ModemState \cap masked

\* The main loop polls the lines and tells the client if one it masks in differs
\* from what it was told last, and only then remembers them.
ReadModem ==
    /\ InputFlow
    /\ LET newstate == GetModemState(ModemState)
           masked == Masked(ModemStateMask)
       IN  /\ Differs(masked)
           /\ Remember(newstate)
           /\ SendCommand(107, <<Byte({b \in newstate : (ModemStateMask \div b) % 2 = 1})>>)
           /\ told' = [told EXCEPT ![107] = [l \in masked |-> l \in newstate]]
    /\ toDev' = << >>
    /\ NextSteps /\ UNCHANGED <<parser, options, settings, pending, current, devGot, items>>

\* The client leaves, whatever it was sending.  ClosePort restores the settings of
\* the device, the next client's options start anew; the statics stay.
NextClient ==
    /\ clients < MaxClients /\ clients' = clients + 1
    /\ port' = initialport
    /\ is_will' = {} /\ is_do' = {}
    /\ sent_will' = {BINARY} /\ sent_do' = {BINARY, COMPORT}
    /\ toDev' = << >> /\ toNet' = << >> /\ pending' = << >> /\ current' = NoItem
    /\ devGot' = << >> /\ told' = [k \in Known |-> << >>]
    /\ aligned' = (IACEscape = "Normal" /\ Last # CR)
    /\ UNCHANGED <<parser, LastOut, ModemStateMask, LineStateMask, InputFlow,
                   BreakSignaled, ModemState, initialport, lines, items, changes>>

Next == ClientSends \/ ReadNet \/ ReadDev \/ LinesChange \/ ReadModem \/ NextClient

Spec == Init /\ [][Next]_vars

-----------------------------------------------------------------------------
(* Properties                                                              *)

\* Every variable holds a value of its type; a command other than a signature
\* stays within the longest length, whatever the clients send.
TypeOK ==
    /\ IACEscape \in {"Normal", "Received", "Command"}
    /\ IACSigEscape \in {"Normal", "Received"}
    /\ IACCommand \in Seq(Bytes)
    /\ Len(IACCommand) <= 10 \/ (IACCommand[2] = SB /\ IACCommand[4] = 0)
    /\ {Last, LastOut, ModemStateMask} \subseteq Bytes /\ LineStateMask \in {0, 16}
    /\ is_will \cup is_do \cup sent_will \cup sent_do \subseteq {BINARY, COMPORT}
    /\ port \in Termios /\ InputFlow \in BOOLEAN /\ BreakSignaled \in BOOLEAN
    /\ {toDev, toNet, pending, devGot} \subseteq Seq(Bytes)
    /\ initialport \in Opened /\ lines \subseteq Lines /\ ModemState \subseteq Bytes
    /\ aligned \in BOOLEAN /\ DOMAIN told = Known
    /\ items \in 0..MaxItems /\ changes \in 0..MaxLines /\ clients \in 1..MaxClients

EscapedParam ==
    /\ current.kind = "command" /\ current.bytes[4] # 0
    /\ \E i \in 1..Len(current.data) : current.data[i] = IAC

\* After each item the parser is between two items again and the device got the
\* client's data and nothing else, whatever items came before.  An escaped byte
\* in the parameter of a command is the exception: the command is taken to end
\* one byte early, and the device gets the SE (EscRedirectChar:567-592).  A client
\* that leaves in the middle of an item, or after a CR, leaves that to the next.
InSync ==
    aligned /\ pending = << >> =>
        /\ IACEscape = "Normal"
        /\ devGot = IF current.kind = "data" THEN current.data
                    ELSE IF EscapedParam THEN <<SE>> ELSE << >>

\* The bound that sercd.c names for what is sent to the client in one go: a telnet
\* option, the signature, the speed or another reply (SendTelnetOption_bytes,
\* SendSignature_bytes with the text SigStr, SendBaudRate_bytes,
\* SendCPCByteCommand_bytes).
ReplyBound(sent) ==
    LET reply == Len(sent) >= 4 /\ sent[2] = SB
    IN  IF ~reply THEN 3
        ELSE IF sent[4] = 100 THEN 6 + 2 * Len(SigStr)
        ELSE IF sent[4] = 101 THEN 6 + 2 * SizeofLong
        ELSE 8

\* What a step costs stays within the bounds sercd.c names, on which the main loop
\* relies for the room in its buffers: a byte of the client is one byte for the
\* device (EscRedirectChar_bytes_DevB), or a reply within its bound, or sets
\* InputFlow, never two of these; a byte of the device is one or two for the client
\* (EscWriteChar_bytes, the divisor of :1487), a change of the lines 7 or 8; and
\* nothing but a byte of the client sets InputFlow.
CostBounded ==
    [][/\ ReadNet =>
            \/ Len(toDev') = 1 /\ toNet' = << >> /\ UNCHANGED InputFlow
            \/ toDev' = << >> /\ Len(toNet') <= ReplyBound(toNet') /\ UNCHANGED InputFlow
            \/ toDev' = << >> /\ toNet' = << >>
       /\ ReadDev => toDev' = << >> /\ Len(toNet') \in 1..2
       /\ ReadModem => toDev' = << >> /\ Len(toNet') \in 7..8
       /\ InputFlow' # InputFlow => ReadNet]_vars

\* What the client was last told of a setting is in force, whatever else it or
\* the device has sent since (HandleCPCCommand:698-935 and Set*, Get* of unix.c).
ToldIsTrue ==
    /\ told[1] # << >> => told[1] = <<GetPortSpeed(port)>>
    /\ told[2] # << >> => told[2] = <<GetPortDataSize(port)>>
    /\ told[3] # << >> => told[3] = <<GetPortParity(port)>>
    /\ told[4] # << >> => told[4] = <<GetPortStopSize(port)>>
    /\ told[5] # << >> => told[5] = <<GetPortFlowControl(port, 0, FALSE, FALSE)>>
    /\ told[50] # << >> => told[50] = <<IF BreakSignaled THEN 5 ELSE 6>>
    /\ told[10] # << >> => told[10] = <<LineStateMask>>
    /\ told[11] # << >> => told[11] = <<ModemStateMask>>

\* A parameter that the port can take is obeyed and not changed silently: after
\* the command the client has been told the very value it asked for
\* (HandleCPCCommand:733-886).
Supported(cmd) ==
    CASE cmd = 1 -> Speeds
      [] cmd = 2 -> {<<v>> : v \in 5..8}
      [] cmd = 3 -> {<<1>>, <<2>>, <<3>>}
      [] cmd = 4 -> {<<1>>, <<2>>}
      [] cmd = 5 -> {<<1>>, <<2>>, <<3>>}
      [] cmd = 11 -> {<<v>> : v \in Bytes}
      [] OTHER -> {}
Obeyed ==
    LET cmd == current.bytes[4]
    IN  aligned /\ pending = << >> /\ current.kind = "command" /\ current.data \in Supported(cmd) =>
            told[cmd] = IF cmd = 1 THEN <<current.data>> ELSE current.data

\* The parameter of a reply, read as the client reads it, is one value, and its
\* escapes cannot be taken for its end: the bytes IAC come in pairs.  The NUL that
\* EscWriteChar writes after a CR comes into the parameter, so this is said of the
\* replies after another byte or with BINARY agreed (EscWriteChar:454-467).
WholeValue(body, size) ==
    LET iacs == Cardinality({i \in DOMAIN body : body[i] = IAC})
    IN  iacs % 2 = 0 /\ Len(body) - iacs \div 2 = size
IsReply(sent) == Len(sent) > 3 /\ sent[2] = SB /\ sent[4] # 100
ReplyIsWhole ==
    [][ReadNet /\ IsReply(toNet') /\ (BINARY \in is_will \/ LastOut # CR) =>
         WholeValue(SubSeq(toNet', 5, Len(toNet') - 2),
                    IF toNet'[4] = 101 THEN SizeofLong ELSE 1)]_vars

\* When a poll of the control lines finds nothing to tell, the client knows them:
\* of every line it has been told of and has not masked out since, it was told the
\* present state (sercd.c:1634-1650).
NotifiedIsTrue ==
    ~Differs(Masked(ModemStateMask)) =>
        \A l \in DOMAIN told[107] : told[107][l] = (l \in lines)
=============================================================================
