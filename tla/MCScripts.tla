------------------------------ MODULE MCScripts ------------------------------
(***************************************************************************)
(* Instances for TLC of AsyncTasks, HttpClient and MySQL in the hands of   *)
(* scripts and servers that behave: what these components promise only     *)
(* then.  They share no state, so a behaviour uses one of them, and the    *)
(* others stay as they are.  HttpClient and MySQL are instantiated with    *)
(* their theorems, which ScriptsProofs carries over to these scripts.      *)
(***************************************************************************)
EXTENDS AsyncTasks

CONSTANTS
    MaxGet,      \* bound: number of requests of the http client
    MaxConnect,  \* bound: number of connections of the MySQL client
    MaxQuery     \* bound: number of its queries

ASSUME ScriptsAssumption ==
    /\ MaxGet \in Nat \ {0}
    /\ MaxConnect \in Nat \ {0}
    /\ MaxQuery \in Nat \ {0}

VARIABLES
    used,                                                \* the component
    hcc, http, hConn, hRef, owes, hStack, gets,          \* HttpClient
    hAnswers, status, hAlive, hFault,
    client, mConn, wire, cut, buffer, auth, serverTx,    \* MySQL
    mRef, mStack, mConnects, queries, mAnswers, mTold,
    mAlive, rsa, mFault

(* A script that uses the object outside onConnect and waits for it, a     *)
(* system whose calls succeed, and a server that only answers.             *)
Http == INSTANCE HttpClientProofs WITH
    Env <- {"untilClose"},
    conn <- hConn, ref <- hRef, stack <- hStack, answers <- hAnswers,
    alive <- hAlive, fault <- hFault

(* A script that connects once and waits for its callbacks, with OpenSSL   *)
(* or without, and a server that lets it in.                               *)
Mysql == INSTANCE MySQLProofs WITH
    Env <- {"sha2", "switches", "noRsa", "connectFails"},
    conn <- mConn, ref <- mRef, stack <- mStack, connects <- mConnects,
    answers <- mAnswers, told <- mTold, alive <- mAlive, fault <- mFault

httpVars == <<hcc, http, hConn, hRef, owes, hStack, gets, hAnswers, status,
              hAlive, hFault>>

mysqlVars == <<client, mConn, wire, cut, buffer, auth, serverTx, mRef, mStack,
               mConnects, queries, mAnswers, mTold, mAlive, rsa, mFault>>

ScriptsInit ==
    /\ used \in {"tasks", "http", "mysql"}
    /\ Init /\ (used # "tasks" => ~use_async_resolver)
    /\ Http!Init
    /\ Mysql!Init

ScriptsNext ==
    /\ UNCHANGED used
    /\ \/ used = "tasks" /\ Next /\ UNCHANGED <<httpVars, mysqlVars>>
       \/ used = "http" /\ Http!Next /\ UNCHANGED <<vars, mysqlVars>>
       \/ used = "mysql" /\ Mysql!Next /\ UNCHANGED <<vars, httpVars>>

(* The fairness of each component, which an unused one meets.              *)
ScriptsSpec ==
    /\ ScriptsInit /\ [][ScriptsNext]_<<used, vars, httpVars, mysqlVars>>
    /\ Fairness
    /\ Http!Fairness
    /\ Mysql!Fairness

-----------------------------------------------------------------------------
(* The properties of the components, under the names they have there.      *)

(* HttpClient: a null pointer is met only where the environment allows it. *)
FaultNeedsACause == Http!FaultNeedsACause

(* HttpClient: a response reaches the request it answers.                  *)
ResponseMatchesRequest == Http!ResponseMatchesRequest

(* HttpClient: no request takes the place of one that still waits.         *)
NoRequestOverwritten == Http!NoRequestOverwritten

(* MySQL: the transaction flag is the server's.                            *)
TransactionIsServers == Mysql!TransactionIsServers

(* MySQL: the callback of connect() runs once.                             *)
ConnectIsToldOnce == Mysql!ConnectIsToldOnce

(* Each call of exec() and dns_lookup(), each http request, each query and *)
(* each connect() of these scripts is answered in the end.                 *)
EveryCallEnds ==
    /\ EveryTaskEnds
    /\ Http!EveryRequestAnswered
    /\ Mysql!EveryQueryAnswered
    /\ Mysql!EveryConnectReported
=============================================================================
