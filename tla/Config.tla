-------------------------------- MODULE Config --------------------------------
(***************************************************************************)
(* configdoc.Load: the configuration of a service from its base file, the  *)
(* override file of the environment, the -env flag and APP_ENV.            *)
(*                                                                         *)
(* A file is a record with the keys it sets; a file that cannot be read or *)
(* parsed is Broken.  Timeouts, pool sizes, log rotation and credentials   *)
(* are numbers and strings nothing here depends on; an empty list is "".   *)
(***************************************************************************)
EXTENDS Naturals

CONSTANTS NoFile, Broken, Invalid   \* Invalid: what Load returns with an error

(* What a field holds that no file sets. *)
ZeroConfig ==
    [env |-> "", name |-> "", host |-> "", port |-> 0, tcp_port |-> 0, grpc_port |-> 0,
     endpoints |-> "", lease_ttl |-> 0, advertise_host |-> "", advertise_port |-> 0,
     redis |-> FALSE, redis_addresses |-> "", mongodb |-> FALSE, uri |-> "", database |-> "",
     level |-> "", retention |-> 0, stdout |-> FALSE, fileout |-> FALSE]

FirstSet(a, b) == IF a # "" THEN a ELSE b
Positive(n, default) == IF n <= 0 THEN default ELSE n

(* A mutated form; only a mutation run uses it. *)
EnvOfFile(c, env) == c

-------------------------------------------------------------------------------

(* resolveEnv: the flag, then APP_ENV, then dev. *)
ResolveEnv(flag, appEnv) == FirstSet(flag, FirstSet(appEnv, "dev"))

IsProd(c) == c.env = "prod"

(* What both set is taken from the first. *)
Over(first, second) ==
    [key \in DOMAIN first \cup DOMAIN second |-> IF key \in DOMAIN first THEN first[key] ELSE second[key]]

(* applyDefaults: these keys over the rest; what depends on the environment comes
   after it is known.                                                             *)
Defaulted(c) ==
    LET quiet == ~c.fileout /\ ~c.stdout
    IN  [lease_ttl |-> Positive(c.lease_ttl, 10),
         advertise_host |-> FirstSet(c.advertise_host, c.host),
         advertise_port |-> Positive(c.advertise_port, c.port),
         tcp_port |-> Positive(c.tcp_port, c.port + 1000),
         grpc_port |-> Positive(c.grpc_port, c.port + 2000),
         level |-> FirstSet(c.level, IF IsProd(c) THEN "info" ELSE "debug"),
         retention |-> Positive(c.retention, IF IsProd(c) THEN 30 ELSE 7),
         fileout |-> c.fileout \/ quiet,
         stdout |-> c.stdout \/ (quiet /\ ~IsProd(c))]

ApplyDefaults(c) == Over(Defaulted(c), c)

Valid(c) ==
    /\ c.name # "" /\ c.host # "" /\ c.port > 0
    /\ c.redis => c.redis_addresses # ""
    /\ c.mongodb => c.uri # "" /\ c.database # ""

(* app.env as Load leaves it: the environment resolved before the files were
   read wins over what they say.                                             *)
WithEnv(c, env) == [c EXCEPT !.env = env]

(* The override file of the environment, merged over the base file. *)
Merged(base, override) == IF override = NoFile THEN base ELSE Over(override, base)

(* The file named after the environment, beside the base file. *)
OverrideFile(in, env) == IF env \in DOMAIN in.overrides THEN in.overrides[env] ELSE NoFile

(* in: [base, overrides: environment -> file, flag, appEnv] *)
Load(in) ==
    LET env == ResolveEnv(in.flag, in.appEnv)
        override == OverrideFile(in, env)
        cfg == ApplyDefaults(WithEnv(Over(Merged(in.base, override), ZeroConfig), env))
    IN  IF in.base # Broken /\ override # Broken /\ Valid(cfg) THEN cfg ELSE Invalid

HasEtcd(c) == c.endpoints # ""

(* ListenAddress, TCPListenAddress, GRPCListenAddress: the host is the machine
   the process runs on, whatever name it is given.                             *)
PortOf(c, kind) ==
    CASE kind = "http" -> c.port [] kind = "tcp" -> c.tcp_port [] kind = "grpc" -> c.grpc_port

===============================================================================
