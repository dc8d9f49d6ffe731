----------------------------- MODULE MCLogConfig -----------------------------
(* Documents for LogConfig.                                                *)
EXTENDS LogConfig

CONSTANTS root, sys

Stdout(level, f) == [type |-> StdoutType, file |-> FALSE, level |-> level, formatter |-> f]
File(level, f) == [type |-> FileType, file |-> TRUE, level |-> level, formatter |-> f]
Logger(n, level, f, as) == [name |-> n, level |-> level, formatter |-> f, appenders |-> as]

NoType == [type |-> Null, file |-> FALSE, level |-> "INFO", formatter |-> Null]
NoFile == [type |-> FileType, file |-> FALSE, level |-> "INFO", formatter |-> Null]

(* Any two of them differ in the level or the formatter of every logger    *)
(* they share.                                                             *)
Documents == {
  <<>>,
  <<Logger(root, "INFO", Null, <<Stdout("", Null)>>)>>,
  <<Logger(root, "info", "f1", <<Stdout("", "f2")>>),
    Logger(sys, "info", Null, <<File("ERROR", Null)>>)>>,
  <<Logger(sys, "Warn", "f2", <<File("", Null), Stdout("WARN", "f1")>>)>>,
  <<Logger(sys, "ERROR", BadPattern, <<NoType, Stdout("", BadPattern), NoFile>>),
    Logger(sys, "FATAL", Null, <<>>)>>,
  <<Logger(root, "WARN", Null, <<>>), Logger(Null, "DEBUG", Null, <<>>)>>,
  <<Logger(root, "FATAL", BadPattern, <<File("INFO", Null)>>), Logger(sys, "", "f1", <<>>)>> }

ASSUME DocumentsDistinguished == Distinguished

(* One logger stays as it is while another is added.                       *)
Reloads == {
  <<Logger(root, "INFO", Null, <<Stdout("", Null)>>)>>,
  <<Logger(root, "INFO", Null, <<Stdout("", Null)>>),
    Logger(sys, "DEBUG", "f1", <<File("", Null)>>)>> }

=============================================================================
