---------------------------- MODULE MCMigrations ----------------------------
(* Instances of Migrations for TLC.                                        *)
EXTENDS Migrations

CONSTANTS bot, backup, backup2

MCBackups == {backup, backup2}

\* Three files: comments that end in a semicolon before, after and within
\* statements of one and of several lines, and a last one without semicolon.
MCFiles == << <<"remark", "code", "end", "end">>,
              <<"code", "remark", "code", "end", "remark", "end">>,
              <<"end", "code">> >>

=============================================================================
