---------------------------- MODULE MCManifestLock -----------------------------
(* Small instances of ManifestLock: Windows with the copy of a behavior rollback, *)
(* POSIX without.                                                                *)
EXTENDS ManifestLock

WindowsWithBackup == <<"windows", TRUE>>
PosixPlain == <<"posix", FALSE>>

MCSetups == {WindowsWithBackup, PosixPlain}
MCPosix == {PosixPlain}
================================================================================
