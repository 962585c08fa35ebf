-------------------------------- MODULE MCServer --------------------------------
(* Instances of Server for TLC. *)
EXTENDS Server, TLC

CONSTANTS p1, p2, plain, websocket

(* p1 runs two services, as Run allows; p2 is a gate on the same machine. *)
MCNameOf == p1 :> "auth" @@ p2 :> "gate"
MCServicesOf == p1 :> <<"auth", "gate">> @@ p2 :> <<"gate">>
OwnNames == {<<"auth", "auth">>, <<"gate", "gate">>}
OneHost == p1 :> "host" @@ p2 :> "host"

AuthFile ==
    [env |-> "dev", name |-> "auth", host |-> "0.0.0.0", port |-> 9002,
     endpoints |-> "etcd", advertise_host |-> "127.0.0.1", advertise_port |-> 9002,
     redis |-> TRUE, redis_addresses |-> "redis", mongodb |-> TRUE, uri |-> "mongo",
     database |-> "wuziqi_auth", stdout |-> TRUE, fileout |-> TRUE]
AuthOverrides ==
    "dev" :> [env |-> "dev", level |-> "debug", retention |-> 0, stdout |-> TRUE, fileout |-> TRUE]
    @@ "prod" :> [env |-> "prod", level |-> "info", retention |-> 90, stdout |-> FALSE, fileout |-> TRUE]

(* Ports that p1 uses too, no store, no etcd. *)
GateFile == [env |-> "dev", name |-> "gate", host |-> "0.0.0.0", port |-> 9002]

MCInputs ==
    p1 :> {[base |-> AuthFile, overrides |-> AuthOverrides, flag |-> "prod", appEnv |-> "dev"]}
    @@ p2 :> {[base |-> GateFile, overrides |-> "dev" :> NoFile, flag |-> "", appEnv |-> "prod"],
              [base |-> AuthFile, overrides |-> AuthOverrides, flag |-> "", appEnv |-> ""],
              [base |-> GateFile, overrides |-> "dev" :> Broken, flag |-> "", appEnv |-> ""]}

===============================================================================
