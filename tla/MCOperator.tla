----------------------------- MODULE MCOperator -----------------------------
(***************************************************************************)
(* Instances of Operator for TLC: a directory with two plugins, a          *)
(* directory and a file that is no plugin; plugins that are fine, that     *)
(* have the same ID, no ID or no known format; and deployments that are    *)
(* sound and that fail at each place main() can fail.                      *)
(***************************************************************************)
EXTENDS Operator, TLC

MCEntries == <<[file |-> "sub", dir |-> TRUE, so |-> TRUE],
               [file |-> "a.so", dir |-> FALSE, so |-> TRUE],
               [file |-> "b.so", dir |-> FALSE, so |-> TRUE],
               [file |-> "readme", dir |-> FALSE, so |-> FALSE]>>

Reports(a, b) == [f \in Files |-> IF f = "a.so" THEN a ELSE b]
Is_(id, format) == [id |-> id, format |-> format]

MCInfos == {Reports(Is_("i", "json"), Is_("j", "yaml")),
            Reports(Is_("i", "json"), Is_("i", "json")),
            Reports(Is_("i", "json"), Is_("", "json")),
            Reports(Is_("i", "unspecified"), Is_("j", "json")),
            Reports(Is_("i", "json"), Is_("j", "other"))}

MCLines == {Blank, TooLong,
            [form |-> "json", prefix |-> "none", message |-> "string",
             level |-> "debug", timestamp |-> NotString]}

NoKeys == [key \in {} |-> ""]
File(name, yaml, good, layer) == [name |-> name, yaml |-> yaml, good |-> good, layer |-> layer]
Plain == [configDir |-> "none", files |-> {}, env |-> NoKeys,
          webhookCert |-> "none", metricsCert |-> "none", webhooks |-> FALSE]

MCDeployments == {
    [Plain EXCEPT !.configDir = "directory", !.webhooks = TRUE, !.webhookCert = "good",
                  !.files = {File(1, TRUE, TRUE, "log.loggers.node.level" :> "warn"),
                             File(2, TRUE, TRUE, "log.loggers.node.level" :> "trace"),
                             File(3, FALSE, TRUE, "log.level" :> "error"),
                             File(4, TRUE, FALSE, "log.level" :> "error")},
                  !.env = ("log.level" :> "debug") @@ ("containerNode" :> "true")
                          @@ ("reboot.checkInterval" :> "never")
                          @@ ("log.loggers.node.level" :> "error")
                          @@ ("log.loggers.drain-plugin-client.level" :> "bogus")],
    [Plain EXCEPT !.env = "log.level" :> "trace"],
    [Plain EXCEPT !.configDir = "directory", !.metricsCert = "missing",
                  !.files = {File(1, TRUE, TRUE, ("log.level" :> "fatal")
                                                 @@ ("reboot.checkInterval" :> "1h"))}],
    [Plain EXCEPT !.env = "log.format" :> "two words"],
    [Plain EXCEPT !.env = "containerNode" :> "maybe"],
    [Plain EXCEPT !.configDir = "file"]}
=============================================================================
