----------------------------- MODULE MCStartup -----------------------------
(* An instance of Startup for TLC. *)
EXTENDS Startup, TLC

LowerCase ==
  [foreign_keys |-> "foreign_keys", FOREIGN_KEYS |-> "foreign_keys",
   busy_timeout |-> "busy_timeout", journal_mode |-> "journal_mode",
   synchronous |-> "synchronous", memory |-> "memory", MEMORY |-> "memory",
   ro |-> "ro", rw |-> "rw"]

Converted == [_timeout |-> "busy_timeout", _busy_timeout |-> "busy_timeout",
              _fk |-> "foreign_keys", _sync |-> "synchronous"]

Good == [filesReadable |-> TRUE, argument |-> "none", encryptionKey |-> "long",
         othersValid |-> TRUE, fileBackend |-> "filesystem", uploadPath |-> "",
         connString |-> "file", mode |-> "rw", immutable |-> FALSE, port |-> "8080",
         tempDirSet |-> TRUE, aliases |-> <<>>, pragmas |-> <<>>]

\* Every environment, with a connection string without options.
Settings ==
  {[Good EXCEPT !.filesReadable = f, !.argument = a, !.encryptionKey = e,
                !.othersValid = o, !.fileBackend = b, !.uploadPath = u,
                !.connString = c, !.port = p] :
     f \in BOOLEAN, a \in {"none", "--help", "version"}, e \in {"long", "short"},
     o \in BOOLEAN, b \in {"filesystem", "database", "s3", "ftp"}, u \in {"", "uploads"},
     c \in {"", "file", "malformed", "postgres"}, p \in {"", "8080"}}

\* Connection strings of SQLite, with any of the aliases, of which two stand for
\* one pragma, and at most two listed pragmas.
Listable ==
  {Pragma(n, "0") : n \in {"foreign_keys", "FOREIGN_KEYS", "busy_timeout", "synchronous"}}
    \cup {Pragma("journal_mode", "WAL"), Pragma("journal_mode", "OFF")}
AliasValues == [_timeout |-> "1", _busy_timeout |-> "2", _fk |-> "0", _sync |-> "1"]
ConnectionStrings ==
  {[Good EXCEPT !.mode = m, !.immutable = i, !.tempDirSet = (m = "MEMORY"), !.aliases = a, !.pragmas = p] :
     m \in {"rw", "ro", "MEMORY"}, i \in BOOLEAN,
     a \in {[k \in A |-> AliasValues[k]] : A \in SUBSET DOMAIN Converted},
     p \in {<<>>} \cup {<<x>> : x \in Listable} \cup {<<x, y>> : x, y \in Listable}}

SettingsAndStrings == Settings \cup ConnectionStrings
=============================================================================
