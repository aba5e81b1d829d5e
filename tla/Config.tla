------------------------------- MODULE Config -------------------------------
(***************************************************************************)
(* The operator's configuration (internal/config/config.go): the embedded  *)
(* defaults, then the NODEDRAIN_ environment, then the YAML files of       *)
(* /config in the order of their names, each layer loaded over the ones    *)
(* before it.  koanf keeps keys as they are spelled; the environment's are *)
(* lower-cased; decoding into Config prefers the exact spelling.           *)
(*                                                                         *)
(* Layers are functions from the keys they set to values.  Of the keys the *)
(* ones that steer the operator are kept.                                  *)
(***************************************************************************)
EXTENDS Naturals, Sequences, FiniteSets, Folds

NoValue == "no value"
List == "a list"     \* what a value with a space becomes in the environment

Keys == {"log.level", "log.format", "log.loggers.node.level",
         "log.loggers.drain-plugin-client.level", "reboot.checkInterval", "containerNode"}

(* What sets keys spells them as Config does, and gives each a value; the  *)
(* files of a directory have different names.                              *)
IsLayer(layer) == DOMAIN layer \subseteq Keys /\ \A key \in DOMAIN layer : layer[key] # NoValue
IsSource(dep) ==
    /\ IsFiniteSet(dep.files) /\ IsLayer(dep.env)
    /\ \A f \in dep.files : f.name \in Nat /\ IsLayer(f.layer)
    /\ \A f, g \in dep.files : f.name = g.name => f = g

(* The spelling of a key in the environment.                               *)
Lower(key) ==
    CASE key = "reboot.checkInterval" -> "reboot.checkinterval"
      [] key = "containerNode" -> "containernode"
      [] OTHER -> key

(* default-config.yaml.                                                    *)
Defaults == [key \in {"log.level", "log.format", "reboot.checkInterval"} |->
                CASE key = "log.level" -> "info"
                  [] key = "log.format" -> "json"
                  [] key = "reboot.checkInterval" -> "12h"]

Load(k, layer) == [key \in DOMAIN layer \cup DOMAIN k |->
                      IF key \in DOMAIN layer THEN layer[key] ELSE k[key]]

(* The transformation of the environment's names and values.               *)
EnvLayer(env) ==
    [key \in {Lower(x) : x \in DOMAIN env} |->
        LET v == env[CHOOSE x \in DOMAIN env : Lower(x) = key]
        IN  IF v = "two words" THEN List ELSE v]

(* Files of another extension are passed over, and so are, with a message, *)
(* files that do not load.  The others are loaded in the order of their    *)
(* names: the last one over what the files before it give.                 *)
LoadedFiles(dep) == {f \in dep.files : f.yaml /\ f.good}

LastFile(files) == CHOOSE f \in files : \A g \in files : g.name <= f.name

LoadFiles(base, files) ==
    MapThenFoldSet(LAMBDA f, k : Load(k, f.layer), base, LAMBDA f : f, LastFile, files)

KoanfEnvLast(dep) == Load(LoadFiles(Defaults, LoadedFiles(dep)), EnvLayer(dep.env))
Koanf(dep) == LoadFiles(Load(Defaults, EnvLayer(dep.env)), LoadedFiles(dep))

Value(k, key) == IF key \in DOMAIN k THEN k[key] ELSE NoValue

(* A field of Config: the exact key, else one that differs in case only.   *)
Field(k, key) == IF key \in DOMAIN k THEN k[key] ELSE Value(k, Lower(key))

Decodes(key, v) ==
    CASE key = "reboot.checkInterval" -> v \in {"12h", "1h", NoValue}
      [] key = "containerNode" -> v \in {"true", "false", NoValue}
      [] OTHER -> v # List

(* LoadConfig's errors: /config is no directory, or a field has the wrong  *)
(* type.                                                                   *)
ConfigFails(dep) ==
    dep.configDir = "file" \/ \E key \in Keys : ~Decodes(key, Field(Koanf(dep), key))

(* Config.GetLogger: the logger's own level if it is set, or log.level.    *)
LoggerLevel(k, name) ==
    LET own == Field(k, "log.loggers." \o name \o ".level")
    IN  IF own \in {NoValue, ""} THEN Field(k, "log.level") ELSE own

-----------------------------------------------------------------------------
(* The reference: who decides a key, from the last layer to the first.  A  *)
(* default spelled with a capital letter hides the environment's spelling. *)
Decided(dep, key) ==
    LET setters == {f \in LoadedFiles(dep) : key \in DOMAIN f.layer}
        env == {x \in DOMAIN dep.env : Lower(x) = Lower(key)}
        hidden == key \in DOMAIN Defaults /\ Lower(key) # key
    IN  CASE setters # {} -> LastFile(setters).layer[key]
          [] setters = {} /\ env # {} /\ ~hidden -> EnvLayer(dep.env)[Lower(key)]
          [] OTHER -> Value(Defaults, key)
=============================================================================
