---------------------------- MODULE ScriptsProofs ----------------------------
(***************************************************************************)
(* Theorems about the scripts of MCScripts, for any number of requests,    *)
(* connections and queries: what HttpClient and MySQL promise only to      *)
(* scripts and servers that behave, these scripts and servers get.         *)
(***************************************************************************)
EXTENDS MCScripts, TLAPS

-----------------------------------------------------------------------------
(* A script that uses the http client is one of HttpClient, and one that   *)
(* uses the MySQL client is one of MySQL; to the others the component      *)
(* stands still.                                                           *)

LEMMA HttpStays == UNCHANGED httpVars <=> UNCHANGED Http!vars
BY DEF httpVars, Http!vars

LEMMA MysqlStays == UNCHANGED mysqlVars <=> UNCHANGED Mysql!vars
BY DEF mysqlVars, Mysql!vars, Mysql!external, Mysql!script

LEMMA ScriptsUseHttp == ScriptsSpec => Http!Spec
<1>1. ScriptsInit => Http!Init
  BY DEF ScriptsInit
<1>2. [ScriptsNext]_<<used, vars, httpVars, mysqlVars>> => [Http!Next]_(Http!vars)
  BY HttpStays DEF ScriptsNext
<1> QED BY <1>1, <1>2, PTL DEF ScriptsSpec, Http!Spec

LEMMA ScriptsUseMysql == ScriptsSpec => Mysql!Spec
<1>1. ScriptsInit => Mysql!Init
  BY DEF ScriptsInit
<1>2. [ScriptsNext]_<<used, vars, httpVars, mysqlVars>> => [Mysql!Next]_(Mysql!vars)
  BY MysqlStays DEF ScriptsNext
<1> QED BY <1>1, <1>2, PTL DEF ScriptsSpec, Mysql!Spec

-----------------------------------------------------------------------------
(* The bounds and the surroundings are ones the components allow.          *)

LEMMA HttpAllowed ==
    /\ MaxGet \in Nat \ {0}
    /\ {"untilClose"} \subseteq Http!Behaviours
BY ScriptsAssumption DEF Http!Behaviours

LEMMA MysqlAllowed ==
    /\ MaxConnect \in Nat \ {0}
    /\ MaxQuery \in Nat \ {0}
    /\ {"sha2", "switches", "noRsa", "connectFails"} \subseteq Mysql!Behaviours
BY ScriptsAssumption DEF Mysql!Behaviours

-----------------------------------------------------------------------------
(* The theorems.                                                           *)

(* The http client of such a script never runs into a null pointer:        *)
(* FaultNeedsACause leaves no cause, because the file of a download opens, *)
(* onConnect leaves the object alone and the server only answers.          *)
THEOREM NoHttpFault == ScriptsSpec => []FaultNeedsACause
<1>1. Http!Spec => []Http!FaultNeedsACause
  BY HttpAllowed, Http!FaultsHaveACause
<1>2. Http!FaultNeedsACause <=> FaultNeedsACause
  BY DEF FaultNeedsACause
<1> QED BY <1>1, <1>2, ScriptsUseHttp, PTL

(* A response reaches the request it answers: http_client_onReceive runs   *)
(* the callback of the oldest request that the server owes an answer.      *)
THEOREM HttpResponsesMatch == ScriptsSpec => ResponseMatchesRequest
<1>1. Http!Spec => Http!ResponseMatchesRequest
  BY HttpAllowed, Http!ResponsesMatch
<1> QED BY <1>1, ScriptsUseHttp DEF ResponseMatchesRequest

(* No request takes the place of one whose callback did not run: a request *)
(* is accepted in a state of http and hcc in which none waits.             *)
THEOREM HttpRequestsAreKept == ScriptsSpec => NoRequestOverwritten
<1>1. Http!ConnectsAreReported
  BY DEF Http!ConnectsAreReported
<1>2. Http!Spec => Http!NoRequestOverwritten
  BY <1>1, HttpAllowed, Http!RequestsAreKept
<1> QED BY <1>2, ScriptsUseHttp DEF NoRequestOverwritten

(* The flag that begin(), commit() and rollback() look at is the           *)
(* transaction that the server is in, whenever the client is idle.         *)
THEOREM TransactionsAgree == ScriptsSpec => []TransactionIsServers
<1>1. Mysql!Polite
  BY DEF Mysql!Polite
<1>2. Mysql!Spec => []Mysql!TransactionIsServers
  BY <1>1, MysqlAllowed, Mysql!TransactionsAgree
<1>3. Mysql!TransactionIsServers <=> TransactionIsServers
  BY DEF TransactionIsServers
<1> QED BY <1>2, <1>3, ScriptsUseMysql, PTL

(* The callback of connect() runs at most once.                            *)
THEOREM ConnectTellsOnce == ScriptsSpec => []ConnectIsToldOnce
<1>1. "split" \notin {"sha2", "switches", "noRsa", "connectFails"}
  OBVIOUS
<1>2. Mysql!Spec => []Mysql!ConnectIsToldOnce
  BY <1>1, MysqlAllowed, Mysql!ConnectTellsOnce
<1>3. Mysql!ConnectIsToldOnce <=> ConnectIsToldOnce
  BY DEF ConnectIsToldOnce
<1> QED BY <1>2, <1>3, ScriptsUseMysql, PTL
=============================================================================
