------------------------------ MODULE MCStartup ------------------------------
(***************************************************************************)
(* Instances of Startup for TLC.  Two processes share a database file, one *)
(* of them by not naming it; a third has the address of the second, a file *)
(* of its own and an endpoint that is no use; a fourth lacks a credential. *)
(***************************************************************************)
EXTENDS Startup

CONSTANTS first, second, third, fourth, file, other, elsewhere, set, wrong

Nothing == [v \in Names |-> None]

Admin == [Nothing EXCEPT !["SFTPGO_ADMIN_USER"] = set, !["SFTPGO_ADMIN_PASS"] = set]

HalfStore == [Admin EXCEPT !["S3_ENDPOINT"] = set, !["S3_ACCESS_KEY"] = set]

Store == [HalfStore EXCEPT !["S3_SECRET_KEY"] = set]

Settings ==
  [p \in Processes |->
     CASE p = first  -> Store
       [] p = second -> [Admin EXCEPT !["DB_PATH"] = file, !["LISTEN_ADDR"] = elsewhere]
       [] p = third  -> [Store EXCEPT !["DB_PATH"] = other, !["LISTEN_ADDR"] = elsewhere,
                                      !["S3_ENDPOINT"] = wrong]
       [] p = fourth -> [HalfStore EXCEPT !["LISTEN_ADDR"] = elsewhere]]

Defaults == [Nothing EXCEPT !["DB_PATH"] = file, !["LISTEN_ADDR"] = set]

OneOfEach == [failures |-> 1, stops |-> 1]
=============================================================================
