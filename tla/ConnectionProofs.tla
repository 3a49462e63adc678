-------------------------- MODULE ConnectionProofs --------------------------
(***************************************************************************)
(* Theorems about ReCacheConnection, for any servers and accounts.         *)
(***************************************************************************)
EXTENDS ConnectionHistory, TLAPS

(* The session is the one of the client the connection has.                *)
SessionOf(c) == [to |-> c.address, token |-> c.token]

SessionHeld ==
  /\ session = IF IsConnected THEN SessionOf(clients[_client]) ELSE null
  /\ IsConnected => clients[_client].address = clients[_client].token.issuer

SessionInv == ConnectionTypeOK /\ SessionHeld /\ CallsUseSession /\ PrintsTellSession

LEMMA InitSession == HInit => SessionInv
<1> SUFFICES ASSUME HInit
             PROVE  SessionInv
  OBVIOUS
<1>0. 0 \in Secrets /\ 0 \in 0 .. MaxClients
  BY ConnectionAssumption DEF Secrets
<1>1. config \in [Hosts -> Secrets] /\ key \in [Hosts -> Secrets]
  BY <1>0 DEF HInit, Init
<1>2. ConnectionTypeOK
  BY <1>0, <1>1 DEF HInit, Init, ConnectionTypeOK
<1> QED
  BY <1>2 DEF HInit, Init, SessionInv, SessionHeld, CallsUseSession, PrintsTellSession

LEMMA SessionsAreSomething ==
  ASSUME ConnectionTypeOK, IsConnected
  PROVE  SessionOf(clients[_client]) # null
<1>1. /\ clients[_client].address \in Hosts
      /\ clients[_client].token \in Tokens
  BY DEF ConnectionTypeOK, ClientObjects
<1> QED
  BY <1>1, ConnectionAssumption DEF SessionOf

(* What leaves the connection alone leaves the session alone.              *)
LEMMA SessionStays ==
  ASSUME SessionInv, Watch, UNCHANGED <<IsConnected, _client, clients, made>>
  PROVE  SessionHeld' /\ session' = session
<1>1. ~Close
  BY DEF Close, Client, SessionInv, ConnectionTypeOK
<1> QED
  BY <1>1 DEF Watch, SessionInv, SessionHeld, SessionOf

LEMMA ConnectSession ==
  ASSUME SessionInv, Watch, NEW h \in Hosts, NEW login \in Logins \cup {null},
         Connect(h, login)
  PROVE  SessionInv'
<1>1. PICK role \in Roles :
        /\ LogsIn(h, login, role)
        /\ clients' = [clients EXCEPT ![made + 1] =
             NewClient(h, GenerateJSONWebToken(h, role))]
  BY DEF Connect
<1> DEFINE token == GenerateJSONWebToken(h, role)
<1>2. token \in Tokens
  BY DEF GenerateJSONWebToken, Tokens, SessionInv, ConnectionTypeOK
<1>3. made \in Nat /\ made + 1 \in Clients /\ made' = made + 1 /\ made' \in 1 .. made'
  BY ConnectionAssumption DEF Connect, SessionInv, ConnectionTypeOK, Clients
<1>4. clients'[made'] = NewClient(h, token)
  BY <1>1, <1>3 DEF SessionInv, ConnectionTypeOK
<1>5. NewClient(h, token) \in ClientObjects /\ ~NewClient(h, token).disposed
  BY <1>2 DEF NewClient, ClientObjects
<1>6. ConnectionTypeOK'
  <2>1. clients' \in [Clients -> ClientObjects \cup {null}]
    BY <1>1, <1>3, <1>5 DEF SessionInv, ConnectionTypeOK
  <2>2. made' \in 0 .. MaxClients
    BY <1>3, ConnectionAssumption DEF Connect, Clients
  <2> QED
    BY <1>3, <1>4, <1>5, <2>1, <2>2 DEF Connect, servers, SessionInv, ConnectionTypeOK
<1>7. session' = [to |-> h, token |-> token]
  BY <1>3, <1>4 DEF Watch, Connect, NewClient
<1>8. session' # null
  BY <1>2, <1>7, ConnectionAssumption
<1>9. SessionHeld'
  BY <1>3, <1>4, <1>7 DEF SessionHeld, SessionOf, Connect, NewClient, GenerateJSONWebToken
<1> QED
  BY <1>6, <1>8, <1>9 DEF Connect, SessionInv, CallsUseSession, PrintsTellSession

LEMMA CallSession ==
  ASSUME SessionInv, Watch, Call
  PROVE  SessionInv'
<1>1. IsConnected /\ Client = _client
  BY DEF Call, Client
<1>2. SessionHeld' /\ session' = session
  BY SessionStays DEF Call, connection
<1>3. session = SessionOf(clients[_client]) /\ session # null
  BY <1>1, SessionsAreSomething DEF SessionInv, SessionHeld
<1>4. CallsUseSession'
  BY <1>1, <1>2, <1>3 DEF Call, CallsUseSession, SessionInv, SessionHeld, SessionOf
<1>5. PrintsTellSession'
  BY <1>2, <1>3 DEF Call, PrintsTellSession
<1> QED
  BY <1>2, <1>4, <1>5 DEF SessionInv, ConnectionTypeOK, Call, servers, connection

LEMMA CloseSession ==
  ASSUME SessionInv, Watch, Close
  PROVE  SessionInv'
<1>1. IsConnected
  BY DEF Close, Client
<1>2. ConnectionTypeOK'
  <2>1. clients[_client] \in ClientObjects
    BY <1>1 DEF SessionInv, ConnectionTypeOK
  <2>2. [clients[_client] EXCEPT !.disposed = TRUE] \in ClientObjects
    BY <2>1 DEF ClientObjects
  <2>3. clients' \in [Clients -> ClientObjects \cup {null}]
    BY <2>2 DEF Close, SessionInv, ConnectionTypeOK
  <2> QED
    BY <2>3 DEF Close, servers, SessionInv, ConnectionTypeOK
<1>3. session' = null
  BY DEF Watch, Close
<1> QED
  BY <1>2, <1>3 DEF Close, SessionInv, SessionHeld, CallsUseSession, PrintsTellSession

(* The commands that keep the connection and send nothing.                 *)
LEMMA QuietSession ==
  ASSUME SessionInv, Watch, UNCHANGED <<IsConnected, _client, clients, made>>,
         ConnectionTypeOK', sent' = null, PrintsTellSession'
  PROVE  SessionInv'
BY SessionStays DEF SessionInv, CallsUseSession

LEMMA NextSession == SessionInv /\ [HNext]_<<vars, session>> => SessionInv'
<1> SUFFICES ASSUME SessionInv, [HNext]_<<vars, session>>
             PROVE  SessionInv'
  OBVIOUS
<1>1. CASE UNCHANGED <<vars, session>>
  BY <1>1 DEF vars, servers, connection, SessionInv, ConnectionTypeOK, SessionHeld, CallsUseSession,
     PrintsTellSession
<1>2. CASE Watch /\ \E h \in Hosts : StartServer(h) \/ StopServer(h) \/ EditSecret(h)
  <2>1. UNCHANGED <<connection, reading, printed, sent>>
    BY <1>2 DEF StartServer, StopServer, EditSecret
  <2>2. SessionHeld' /\ session' = session
    BY <1>2, <2>1, SessionStays DEF connection
  <2> DEFINE Typed == /\ online' \subseteq Hosts
                      /\ config' \in [Hosts -> Secrets]
                      /\ key' \in [Hosts -> Secrets]
  <2>3. Typed
    <3>1. ASSUME NEW h \in Hosts, StartServer(h)
          PROVE  Typed
      BY <3>1 DEF StartServer, SessionInv, ConnectionTypeOK
    <3>2. ASSUME NEW h \in Hosts, StopServer(h)
          PROVE  Typed
      BY <3>2 DEF StopServer, SessionInv, ConnectionTypeOK
    <3>3. ASSUME NEW h \in Hosts, EditSecret(h)
          PROVE  Typed
      <4>1. config[h] + 1 \in Secrets
        BY <3>3, ConnectionAssumption DEF EditSecret, SessionInv, ConnectionTypeOK, Secrets
      <4> QED
        BY <3>3, <4>1 DEF EditSecret, SessionInv, ConnectionTypeOK
    <3> QED
      BY <1>2, <3>1, <3>2, <3>3
  <2> QED
    BY <2>1, <2>2, <2>3 DEF connection, SessionInv, ConnectionTypeOK, CallsUseSession, PrintsTellSession
<1>3. ASSUME Watch, NEW h \in Hosts, NEW login \in Logins \cup {null}, Connect(h, login)
      PROVE  SessionInv'
  BY <1>3, ConnectSession
<1>4. ASSUME Watch, NEW h \in Hosts, NEW login \in Logins \cup {null},
             ConnectRefused(h, login)
      PROVE  SessionInv'
  <2>1. ConnectionTypeOK'
    BY <1>4 DEF ConnectRefused, servers, SessionInv, ConnectionTypeOK
  <2>2. session' = session
    BY <1>4, SessionStays DEF ConnectRefused
  <2>3. PrintsTellSession'
    BY <1>4, <2>2, SessionsAreSomething
       DEF ConnectRefused, PrintsTellSession, SessionInv, SessionHeld
  <2> QED
    BY <1>4, <2>1, <2>3, QuietSession DEF ConnectRefused
<1>5. ASSUME Watch, NEW h \in Hosts, ConnectThrows(h)
      PROVE  SessionInv'
  <2>1. ConnectionTypeOK'
    BY <1>5 DEF ConnectThrows, servers, SessionInv, ConnectionTypeOK
  <2>2. printed' = "" /\ sent' = null
    BY <1>5 DEF ConnectThrows
  <2>3. session' = session
    BY <1>5, SessionStays DEF ConnectThrows
  <2> QED
    BY <1>5, <2>1, <2>2, <2>3, QuietSession DEF ConnectThrows, PrintsTellSession
<1>6. CASE Watch /\ Call
  BY <1>6, CallSession
<1>7. CASE Watch /\ MustConnect
  <2>1. ConnectionTypeOK'
    BY <1>7 DEF MustConnect, servers, connection, SessionInv, ConnectionTypeOK
  <2>2. session' = session /\ session = null
    <3>1. ~IsConnected
      <4>1. IsConnected => _client \in Nat
        BY DEF SessionInv, ConnectionTypeOK
      <4> QED
        BY <1>7, <4>1, ConnectionAssumption DEF MustConnect, Client
    <3> QED
      BY <1>7, <3>1, SessionStays DEF MustConnect, connection, SessionInv, SessionHeld
  <2> QED
    BY <1>7, <2>1, <2>2, QuietSession DEF MustConnect, connection, PrintsTellSession
<1>8. CASE Watch /\ Close
  BY <1>8, CloseSession
<1>9. CASE Watch /\ Exit
  <2>1. ConnectionTypeOK'
    BY <1>9 DEF Exit, servers, connection, SessionInv, ConnectionTypeOK
  <2> QED
    BY <1>9, <2>1, QuietSession DEF Exit, connection, PrintsTellSession
<1> QED
  BY <1>1, <1>2, <1>3, <1>4, <1>5, <1>6, <1>7, <1>8, <1>9 DEF HNext, Next

(* Every variable has its type; in particular the connection that is open  *)
(* has a client that was made and is not disposed.                         *)
THEOREM TypeCorrect == HSpec => []ConnectionTypeOK
<1>1. SessionInv => ConnectionTypeOK
  BY DEF SessionInv
<1> QED
  BY <1>1, InitSession, NextSession, PTL DEF HSpec

(* Every call of the command line goes over the session of its user.       *)
THEOREM CallsCorrect == HSpec => []CallsUseSession
<1>1. SessionInv => CallsUseSession
  BY DEF SessionInv
<1> QED
  BY <1>1, InitSession, NextSession, PTL DEF HSpec

(* What the command line prints agrees with whether there is a session.    *)
THEOREM PrintsCorrect == HSpec => []PrintsTellSession
<1>1. SessionInv => PrintsTellSession
  BY DEF SessionInv
<1> QED
  BY <1>1, InitSession, NextSession, PTL DEF HSpec

=============================================================================
