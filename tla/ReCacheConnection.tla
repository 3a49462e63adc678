-------------------------- MODULE ReCacheConnection --------------------------
(***************************************************************************)
(* The command line (recli) with its one ReCacheConnection, and the        *)
(* servers it logs in to.  The command line does one command after the     *)
(* other; meanwhile servers stop, start and get another configuration.     *)
(* The route of an address has one segment at most.  Such a route plays no *)
(* role: the login goes to a path relative to the address, which replaces  *)
(* the segment, and the calls of a client ignore it.  A longer one would   *)
(* send the login to a path no server has.                                 *)
(***************************************************************************)
EXTENDS Naturals

CONSTANTS
  null,         (* no client, no login, nothing sent                       *)
  Hosts,        (* the addresses; a malformed one is a host never online   *)
  Logins,       (* pairs of a username and a password                      *)
  Users,        (* the two accounts each server is configured with         *)
  MaxClients,   (* bound: clients the connection creates                   *)
  MaxSecrets    (* bound: how often a server's secret is edited            *)

Roles   == {"Admin", "Client"}
Clients == 1 .. MaxClients
Secrets == 0 .. MaxSecrets

Tokens  == [issuer : Hosts, role : Roles, secret : Secrets]

ASSUME ConnectionAssumption ==
  /\ Users \in [Hosts -> [Roles -> Logins]]
  /\ MaxClients \in Nat
  /\ MaxSecrets \in Nat
  /\ null \notin Logins \cup Nat
  /\ \A h \in Hosts, token \in Tokens : [to |-> h, token |-> token] # null

VARIABLES
  online,       (* the servers that run                                    *)
  config,       (* Auth:SecretKey in each server's configuration           *)
  key,          (* the key each server checks tokens with since it started *)
  address,      (* Host, Port and Route of the connection                  *)
  IsConnected,
  _client,      (* the client object of the connection                     *)
  clients,      (* the client objects                                      *)
  made,         (* how many there are                                      *)
  reading,      (* the command line reads commands                         *)
  printed,      (* what the last command printed                           *)
  sent          (* the call it sent                                        *)

servers    == <<online, config, key>>
connection == <<address, IsConnected, _client, clients, made>>
vars       == <<servers, connection, reading, printed, sent>>

ClientObjects == [address : Hosts, token : Tokens, disposed : BOOLEAN]

NewClient(h, token) == [address |-> h, token |-> token, disposed |-> FALSE]

Init ==
  /\ online \in SUBSET Hosts
  /\ config = [h \in Hosts |-> 0]
  /\ key = config
  /\ address \in Hosts
  /\ IsConnected = FALSE
  /\ _client = null
  /\ clients = [c \in Clients |-> null]
  /\ made = 0
  /\ reading = TRUE
  /\ printed = ""
  /\ sent = null

-----------------------------------------------------------------------------
(* The servers.                                                            *)

StartServer(h) ==
  /\ h \notin online
  /\ online' = online \cup {h}
  /\ key' = [key EXCEPT ![h] = config[h]]
  /\ UNCHANGED <<config, connection, reading, printed, sent>>

StopServer(h) ==
  /\ h \in online
  /\ online' = online \ {h}
  /\ UNCHANGED <<config, key, connection, reading, printed, sent>>

(* Tokens are signed with the secret of the moment, and checked with the   *)
(* one the server started with.                                            *)
EditSecret(h) ==
  /\ config[h] < MaxSecrets
  /\ config' = [config EXCEPT ![h] = @ + 1]
  /\ UNCHANGED <<online, key, connection, reading, printed, sent>>

(* SingleOrDefault throws when both accounts are the one of the login.     *)
AuthenticateUser(h, login, role) ==
  \A r \in Roles : Users[h][r] = login <=> r = role

GenerateJSONWebToken(h, role) == [issuer |-> h, role |-> role, secret |-> config[h]]

LogsIn(h, login, role) ==
  h \in online /\ login # null /\ AuthenticateUser(h, login, role)

Answers(h, token) == h \in online /\ token.secret = key[h] /\ token.role \in Roles

-----------------------------------------------------------------------------
(* The command line.                                                       *)

Client == IF IsConnected THEN _client ELSE null

(* connect: the login is accepted.  A client that was there is dropped.    *)
Connect(h, login) ==
  /\ reading
  /\ made < MaxClients
  /\ address' = h
  /\ \E role \in Roles :
       /\ LogsIn(h, login, role)
       /\ clients' = [clients EXCEPT ![made + 1] =
            NewClient(h, GenerateJSONWebToken(h, role))]
  /\ made' = made + 1
  /\ _client' = made + 1
  /\ IsConnected' = TRUE
  /\ printed' = "Connected!"
  /\ sent' = null
  /\ UNCHANGED <<servers, reading>>

(* Mutant of ConnectRefused: a login that fails ends the connection.       *)
ConnectRefusedResets(h, login) ==
  /\ reading
  /\ \A role \in Roles : ~LogsIn(h, login, role)
  /\ address' = h
  /\ IsConnected' = FALSE
  /\ _client' = null
  /\ printed' = "Connection refused!"
  /\ sent' = null
  /\ UNCHANGED <<servers, clients, made, reading>>

(* The server is not there, or knows no such account.  A client that was   *)
(* there stays, under the new address, and Connect answers that it is      *)
(* connected.                                                              *)
ConnectRefused(h, login) ==
  /\ reading
  /\ \A role \in Roles : ~LogsIn(h, login, role)
  /\ address' = h
  /\ printed' = IF IsConnected THEN "Connected!" ELSE "Connection refused!"
  /\ sent' = null
  /\ UNCHANGED <<servers, IsConnected, _client, clients, made, reading>>

(* The login is cancelled or times out: the exception leaves the command.  *)
ConnectThrows(h) ==
  /\ reading
  /\ address' = h
  /\ printed' = ""
  /\ sent' = null
  /\ UNCHANGED <<servers, IsConnected, _client, clients, made, reading>>

(* Mutant of Call: the call goes where the connection points now.          *)
CallAddress ==
  /\ reading
  /\ Client # null
  /\ LET c == clients[Client]
     IN  /\ sent' = [to |-> address, token |-> c.token]
         /\ printed' = IF Answers(address, c.token) THEN "answer" ELSE "error"
  /\ UNCHANGED <<servers, connection, reading>>

(* Any command that is a request of the cache.                             *)
Call ==
  /\ reading
  /\ Client # null
  /\ LET c == clients[Client]
     IN  IF c.disposed
         THEN sent' = null /\ printed' = "error"
         ELSE /\ sent' = [to |-> c.address, token |-> c.token]
              /\ printed' = IF Answers(c.address, c.token) THEN "answer" ELSE "error"
  /\ UNCHANGED <<servers, connection, reading>>

MustConnect ==
  /\ reading
  /\ Client = null
  /\ printed' = "You must connect first."
  /\ sent' = null
  /\ UNCHANGED <<servers, connection, reading>>

(* Mutant of Close: the connection keeps the client it has disposed.       *)
CloseKeeps ==
  /\ reading
  /\ Client # null
  /\ clients' = [clients EXCEPT ![_client].disposed = TRUE]
  /\ printed' = ""
  /\ sent' = null
  /\ UNCHANGED <<servers, address, IsConnected, _client, made, reading>>

(* disconnect, or exit with arguments.  Close answers with IsConnected,    *)
(* which it has just reset, so that nothing is printed.                    *)
Close ==
  /\ reading
  /\ Client # null
  /\ clients' = [clients EXCEPT ![_client].disposed = TRUE]
  /\ _client' = null
  /\ IsConnected' = FALSE
  /\ printed' = ""
  /\ sent' = null
  /\ UNCHANGED <<servers, address, made, reading>>

(* exit: the loop ends, and nobody closes the connection.                  *)
Exit ==
  /\ reading
  /\ reading' = FALSE
  /\ printed' = "Bye!"
  /\ sent' = null
  /\ UNCHANGED <<servers, connection>>

-----------------------------------------------------------------------------
Next ==
  \/ \E h \in Hosts :
       \/ StartServer(h) \/ StopServer(h) \/ EditSecret(h)
       \/ \E login \in Logins \cup {null} : Connect(h, login) \/ ConnectRefused(h, login)
       \/ ConnectThrows(h)
  \/ Call
  \/ MustConnect
  \/ Close
  \/ Exit

Spec == Init /\ [][Next]_vars

-----------------------------------------------------------------------------
(* The type invariant.  The connection has a client exactly while it is    *)
(* connected, and not one it has disposed.                                 *)
ConnectionTypeOK ==
  /\ online \subseteq Hosts
  /\ config \in [Hosts -> Secrets]
  /\ key \in [Hosts -> Secrets]
  /\ address \in Hosts
  /\ IsConnected \in BOOLEAN
  /\ made \in 0 .. MaxClients
  /\ clients \in [Clients -> ClientObjects \cup {null}]
  /\ reading \in BOOLEAN
  /\ IF IsConnected
     THEN /\ _client \in 1 .. made
          /\ clients[_client] \in ClientObjects
          /\ ~clients[_client].disposed
     ELSE _client = null

=============================================================================
