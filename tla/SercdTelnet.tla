---------------------------- MODULE SercdTelnet ----------------------------
(***************************************************************************)
(* sercd.c: the negotiation of telnet options with one client after        *)
(* another, message by message (SercdParser has the bytes).  The server is *)
(* HandleIACCommand and the table tnstate; the client follows RFC 1143: it *)
(* answers what asks it to change, never an answer, and it does not ask    *)
(* again before it is answered.  Each direction is a TCP stream.           *)
(***************************************************************************)
EXTENDS Naturals, Sequences

CONSTANTS
    Options,        \* telnet options
    Supported,      \* the four options of HandleIACCommand
    InitialOffers,  \* the messages of SendTelnetInitialOptions
    ComPort,        \* TNCOM_PORT_OPTION
    ClientWill,     \* options the client performs when asked
    ClientDo,       \* options the client lets the server perform
    MaxAsks,        \* bound: requests the client makes of its own accord
    MaxSubs,        \* bound: suboptions the client sends
    MaxClients      \* bound: connections

\* The server offers and asks for options it supports, each once.
ASSUME TelnetAssumption ==
    /\ Supported \subseteq Options /\ ComPort \in Supported
    /\ InitialOffers \in Seq([verb : {"WILL", "DO"}, option : Supported])
    /\ \A i, j \in DOMAIN InitialOffers : InitialOffers[i] = InitialOffers[j] => i = j
    /\ ClientWill \subseteq Options /\ ClientDo \subseteq Options
    /\ MaxAsks \in Nat /\ MaxSubs \in Nat /\ MaxClients \in Nat \ {0}

VARIABLES
    tnstate,        \* tnstate: option -> what was sent, what is agreed
    toClient, toServer,     \* the two streams
    will, do,       \* client: what it performs, what it lets the server perform
    asked,          \* client: requests of its own that are not answered
    handled,        \* suboptions HandleIACCommand passed on
    sent,           \* suboptions the client sent
    asks, clients

server == <<tnstate, handled>>
client == <<will, do, asked, sent, asks>>
vars == <<server, client, toClient, toServer, clients>>

Verbs == {"WILL", "WONT", "DO", "DONT"}
Messages == [verb : Verbs \cup {"SB"}, option : Options]
Msg(verb, option) == [verb |-> verb, option |-> option]

\* Every variable holds a value of its type.
TypeOK ==
    /\ tnstate \in [Options -> [sent_will : BOOLEAN, sent_do : BOOLEAN,
                                is_will : BOOLEAN, is_do : BOOLEAN]]
    /\ toClient \in Seq(Messages) /\ toServer \in Seq(Messages)
    /\ will \subseteq Options /\ do \subseteq Options
    /\ asked \subseteq [verb : Verbs, option : Options]
    /\ handled \in 0..MaxSubs /\ sent \in 0..MaxSubs
    /\ asks \in 0..MaxAsks /\ clients \in 1..MaxClients

\* Offered, and asked for, by SendTelnetInitialOptions.
InitialWill == {o \in Options : \E i \in DOMAIN InitialOffers : InitialOffers[i] = Msg("WILL", o)}
InitialDo == {o \in Options : \E i \in DOMAIN InitialOffers : InitialOffers[i] = Msg("DO", o)}

\* InitTelnetStateMachine and then SendTelnetInitialOptions.  sent_wont and
\* sent_dont are left out: the code clears them and never sets or reads them.
InitialState ==
    [o \in Options |-> [sent_will |-> o \in InitialWill, sent_do |-> o \in InitialDo,
                        is_will |-> FALSE, is_do |-> FALSE]]

Init ==
    /\ tnstate = InitialState
    /\ toClient = InitialOffers /\ toServer = << >>
    /\ will = {} /\ do = {} /\ asked = {}
    /\ handled = 0 /\ sent = 0 /\ asks = 0 /\ clients = 1

-----------------------------------------------------------------------------
(* the server: HandleIACCommand                                            *)

Receive(verb, o) ==
    /\ toServer # << >> /\ Head(toServer) = Msg(verb, o)
    /\ toServer' = Tail(toServer)
Reply(verb, o) == toClient' = Append(toClient, Msg(verb, o))
Silent == UNCHANGED toClient

HandleWillBug(o) ==                         \* keeps sent_do
    /\ Receive("WILL", o)
    /\ IF o \in Supported
         THEN /\ IF tnstate[o].sent_do THEN Silent ELSE Reply("DO", o)
              /\ tnstate' = [tnstate EXCEPT ![o].is_do = TRUE]
         ELSE /\ Reply("DONT", o)
              /\ tnstate' = [tnstate EXCEPT ![o].is_do = FALSE]
    /\ UNCHANGED handled

\* The client performs o: accepted, and confirmed unless the server had asked.
HandleWill(o) ==
    /\ Receive("WILL", o)
    /\ IF o \in Supported
         THEN /\ IF tnstate[o].sent_do THEN Silent ELSE Reply("DO", o)
              /\ tnstate' = [tnstate EXCEPT ![o].is_do = TRUE, ![o].sent_do = FALSE]
         ELSE /\ Reply("DONT", o)
              /\ tnstate' = [tnstate EXCEPT ![o].is_do = FALSE, ![o].sent_do = FALSE]
    /\ UNCHANGED handled

\* The client wants the server to perform o.
HandleDo(o) ==
    /\ Receive("DO", o)
    /\ IF o \in Supported
         THEN /\ IF tnstate[o].sent_will THEN Silent ELSE Reply("WILL", o)
              /\ tnstate' = [tnstate EXCEPT ![o].is_will = TRUE,
                                            ![o].sent_will = FALSE]
         ELSE /\ Reply("WONT", o)
              /\ tnstate' = [tnstate EXCEPT ![o].is_will = FALSE,
                                            ![o].sent_will = FALSE]
    /\ UNCHANGED handled

\* The client will not have the server perform o, or no longer.
HandleDont(o) ==
    /\ Receive("DONT", o)
    /\ IF tnstate[o].is_will THEN Reply("WONT", o) ELSE Silent
    /\ tnstate' = [tnstate EXCEPT ![o].is_will = FALSE, ![o].sent_will = FALSE]
    /\ UNCHANGED handled

HandleWontBug(o) ==                         \* goes on performing o
    /\ Receive("WONT", o)
    /\ IF tnstate[o].is_do THEN Reply("DONT", o) ELSE Silent
    /\ tnstate' = [tnstate EXCEPT ![o].sent_do = FALSE]
    /\ UNCHANGED handled

HandleWontAgain(o) ==                       \* asks again when it is refused
    /\ Receive("WONT", o)
    /\ IF tnstate[o].is_do THEN Reply("DONT", o)
       ELSE IF o \in InitialDo THEN Reply("DO", o) ELSE Silent
    /\ tnstate' = [tnstate EXCEPT ![o].is_do = FALSE]
    /\ UNCHANGED handled

\* The client will not, or no longer, perform o.
HandleWont(o) ==
    /\ Receive("WONT", o)
    /\ IF tnstate[o].is_do THEN Reply("DONT", o) ELSE Silent
    /\ tnstate' = [tnstate EXCEPT ![o].is_do = FALSE, ![o].sent_do = FALSE]
    /\ UNCHANGED handled

HandleSubBug(o) ==                          \* only what the client performs
    /\ Receive("SB", o)
    /\ handled' = IF tnstate[o].is_will THEN handled + 1 ELSE handled
    /\ UNCHANGED <<tnstate, toClient>>

HandleSubTwice(o) ==                        \* once for each direction
    /\ Receive("SB", o)
    /\ handled' = handled + (IF tnstate[o].is_will THEN 1 ELSE 0)
                          + (IF tnstate[o].is_do THEN 1 ELSE 0)
    /\ UNCHANGED <<tnstate, toClient>>

\* A suboption is passed on if its option is active in either direction.
HandleSub(o) ==
    /\ Receive("SB", o)
    /\ handled' = IF o = ComPort /\ (tnstate[o].is_will \/ tnstate[o].is_do)
                    THEN handled + 1 ELSE handled
    /\ UNCHANGED <<tnstate, toClient>>

HandleIACCommand(o) ==
    /\ \/ HandleWill(o) \/ HandleDo(o) \/ HandleDont(o) \/ HandleWont(o)
       \/ HandleSub(o)
    /\ UNCHANGED <<client, clients>>

ConnectClientBug ==                         \* keeps the table of the last client
    /\ clients < MaxClients /\ clients' = clients + 1
    /\ tnstate' = [o \in Options |-> [tnstate[o] EXCEPT
                      !.sent_will = o \in InitialWill, !.sent_do = o \in InitialDo]]
    /\ toClient' = InitialOffers /\ toServer' = << >>
    /\ will' = {} /\ do' = {} /\ asked' = {}
    /\ handled' = 0 /\ sent' = 0
    /\ UNCHANGED asks

\* The connection is dropped at any time and another client accepted.
ConnectClient ==
    /\ clients < MaxClients /\ clients' = clients + 1
    /\ tnstate' = InitialState
    /\ toClient' = InitialOffers /\ toServer' = << >>
    /\ will' = {} /\ do' = {} /\ asked' = {}
    /\ handled' = 0 /\ sent' = 0
    /\ UNCHANGED asks

-----------------------------------------------------------------------------
(* the client                                                              *)

Send(verb, o) == toServer' = Append(toServer, Msg(verb, o))

\* It asks to start or to stop performing o, or that the server does.
Ask(verb, o) ==
    /\ asks < MaxAsks /\ asks' = asks + 1
    /\ ~\E m \in asked : m.option = o
    /\ \/ verb = "WILL" /\ o \notin will /\ UNCHANGED <<will, do>>
       \/ verb = "DO" /\ o \notin do /\ UNCHANGED <<will, do>>
       \/ verb = "WONT" /\ o \in will /\ will' = will \ {o} /\ UNCHANGED do
       \/ verb = "DONT" /\ o \in do /\ do' = do \ {o} /\ UNCHANGED will
    /\ asked' = asked \cup {Msg(verb, o)}
    /\ Send(verb, o)
    /\ UNCHANGED <<sent, toClient>>

\* A message that answers a request of its own ends that request; another one
\* is a request of the server, answered if it is a change.
Hear(yes, no, mine, notMine, o, active, accepts, active2) ==
    /\ toClient # << >>
    /\ toClient' = Tail(toClient)
    /\ LET verb == Head(toClient).verb
           ends == asked \cap {Msg(mine, o), Msg(notMine, o)}
       IN  /\ Head(toClient).option = o /\ verb \in {yes, no}
           /\ asked' = asked \ ends
           /\ IF ends # {}
                THEN active2 = (IF verb = yes /\ Msg(mine, o) \in ends
                                  THEN active \cup {o} ELSE active \ {o})
                     /\ UNCHANGED toServer
              ELSE IF verb = yes /\ o \notin active
                THEN IF o \in accepts THEN active2 = active \cup {o} /\ Send(mine, o)
                                      ELSE active2 = active /\ Send(notMine, o)
              ELSE IF verb = no /\ o \in active
                THEN active2 = active \ {o} /\ Send(notMine, o)
              ELSE active2 = active /\ UNCHANGED toServer

HearDo(o) == Hear("DO", "DONT", "WILL", "WONT", o, will, ClientWill, will')
             /\ UNCHANGED <<do, sent, asks>>
HearWill(o) == Hear("WILL", "WONT", "DO", "DONT", o, do, ClientDo, do')
               /\ UNCHANGED <<will, sent, asks>>

\* A client that considers the option active sends a suboption of it.
SendSub ==
    /\ sent < MaxSubs /\ sent' = sent + 1
    /\ ComPort \in will \cup do
    /\ Send("SB", ComPort)
    /\ UNCHANGED <<will, do, asked, asks, toClient>>

ClientStep(o) == (HearDo(o) \/ HearWill(o)) /\ UNCHANGED <<server, clients>>

ClientAsks ==
    /\ (\E verb \in Verbs, o \in Options : Ask(verb, o)) \/ SendSub
    /\ UNCHANGED <<server, clients>>

Next ==
    \/ \E o \in Options : HandleIACCommand(o) \/ ClientStep(o)
    \/ ClientAsks \/ ConnectClient

Spec == Init /\ [][Next]_vars

\* The main loop serves its socket and the client reads its own.
FairSpec ==
    /\ Spec
    /\ \A o \in Options : WF_vars(HandleIACCommand(o)) /\ WF_vars(ClientStep(o))

-----------------------------------------------------------------------------
(* Properties                                                              *)

Quiet == toClient = << >> /\ toServer = << >>

\* When nothing is in flight both sides agree on every option, and no request
\* of the client is left unanswered, whatever requests crossed each other.
Agreement ==
    Quiet => /\ asked = {}
             /\ \A o \in Options : /\ tnstate[o].is_do <=> o \in will
                                   /\ tnstate[o].is_will <=> o \in do

\* A suboption of an option the client considers active is never ignored,
\* whatever negotiation is in flight (HandleIACCommand:948).
SubsHandled == Quiet => handled = sent

\* The negotiation comes to rest: the two sides never answer each other's
\* answers for ever.
NegotiationEnds == <>[](Quiet)
=============================================================================
