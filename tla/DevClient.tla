----------------------------- MODULE DevClient ------------------------------
(***************************************************************************)
(* The operator script that makes or updates the provider's DEV client     *)
(* (keycloak-dev-client.py): requests to the provider and a file, with     *)
(* nothing around them.  It may stop anywhere, be run again, and be run by *)
(* two operators at once.                                                  *)
(*                                                                         *)
(*   read   the runtime file was read        get    the client is looked up *)
(*   send   POST or PUT is next              check  the provider is read back *)
(*   write  the runtime file is next                                       *)
(***************************************************************************)
EXTENDS Naturals, FiniteSets

CONSTANTS Operator, Secret, Shared, NoSecret

(* token_urlsafe never makes the production client's secret.               *)
ASSUME SecretsDiffer ==
  Shared \notin Secret /\ NoSecret \notin Secret /\ NoSecret # Shared

VARIABLES
  client,  \* the secret of the DEV client at the provider
  env,     \* the runtime file: which client, which secret
  used,    \* secrets made so far
  step, run

devVars == <<client, env, used, step, run>>

Env == [dev : BOOLEAN, secret : Secret \cup {Shared}]

Fail(o) == step' = [step EXCEPT ![o] = "idle"] /\ UNCHANGED <<client, env, used, run>>

To(o, next) == step' = [step EXCEPT ![o] = next]

Start(o) ==
  /\ step[o] = "idle"
  /\ To(o, "read")
  /\ run' = [run EXCEPT ![o] = [env |-> env, exists |-> FALSE, secret |-> NoSecret]]
  /\ UNCHANGED <<client, env, used>>

GetClient(o) ==
  /\ step[o] = "read"
  /\ To(o, "get")
  /\ run' = [run EXCEPT ![o].exists = client # NoSecret]
  /\ UNCHANGED <<client, env, used>>

(* Defect: any secret of the file will do.                                 *)
HasASecret(file) == file.secret # NoSecret

HasOwnSecret(file) == file.dev /\ file.secret # NoSecret

ChooseSecret(o) ==
  /\ step[o] = "get"
  /\ IF run[o].exists
     THEN IF ~HasOwnSecret(run[o].env) THEN Fail(o)
          ELSE /\ To(o, "send")
               /\ run' = [run EXCEPT ![o].secret = run[o].env.secret]
               /\ UNCHANGED <<client, env, used>>
     ELSE \E s \in Secret \ used :
            /\ To(o, "send")
            /\ used' = used \cup {s}
            /\ run' = [run EXCEPT ![o].secret = s]
            /\ UNCHANGED <<client, env>>

(* The provider refuses a second client of one name, and to update one     *)
(* that is gone; an answer that is lost ends the script.                   *)
Send(o) ==
  /\ step[o] = "send"
  /\ IF run[o].exists = (client = NoSecret) THEN Fail(o)
     ELSE /\ client' = run[o].secret
          /\ \/ To(o, "check") \/ To(o, "idle")
          /\ UNCHANGED <<env, used, run>>

(* The read-back sees URLs and theme; the secret is not compared.          *)
ReadBack(o) ==
  /\ step[o] = "check"
  /\ IF client = NoSecret THEN Fail(o)
     ELSE To(o, "write") /\ UNCHANGED <<client, env, used, run>>

(* os.replace                                                              *)
WriteEnv(o) ==
  /\ step[o] = "write"
  /\ env' = [dev |-> TRUE, secret |-> run[o].secret]
  /\ To(o, "idle")
  /\ UNCHANGED <<client, used, run>>

Crash(o) == step[o] # "idle" /\ Fail(o)

(* A client whose secret was lost in a crash is removed by hand, when no   *)
(* script runs.                                                            *)
RemoveClient ==
  /\ \A o \in Operator : step[o] = "idle"
  /\ client # NoSecret /\ ~env.dev
  /\ client' = NoSecret
  /\ UNCHANGED <<env, used, step, run>>

DevInit ==
  /\ client = NoSecret /\ env = [dev |-> FALSE, secret |-> Shared]
  /\ used = {}
  /\ step = [o \in Operator |-> "idle"]
  /\ run = [o \in Operator |-> [env |-> env, exists |-> FALSE, secret |-> NoSecret]]

DevNext ==
  \/ RemoveClient
  \/ \E o \in Operator :
       Start(o) \/ GetClient(o) \/ ChooseSecret(o) \/ Send(o) \/ ReadBack(o)
         \/ WriteEnv(o) \/ Crash(o)

----------------------------------------------------------------------------
(* "Existing DEV client requires the separate DEV runtime secret": the DEV *)
(* client never gets the secret it would share with production, and once   *)
(* the runtime file names it, the file has its secret, whatever crashed    *)
(* and was run again before (main).                                        *)
SecretsMatch ==
  /\ client # Shared
  /\ env.dev => client = env.secret

=============================================================================
