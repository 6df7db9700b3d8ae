---------------------------- MODULE MCEvaluation ----------------------------
(* Two tracked files, a new file beside one of them, a new directory with a *)
(* new file and an ignored one; the command accepts both new contents.     *)
EXTENDS Evaluation

MCNames == {"a", "c", "d", "f", "g", "n", "x", Slash}
MCPaths == {<<"a">>, <<"d", "f">>, <<"d", "g">>, <<"n", "x">>, <<"n", "c">>}
MCCommit == [p \in MCPaths |-> IF p \in {<<"a">>, <<"d", "f">>} THEN "old" ELSE Gone]
MCIgnored == {<<"n", "c">>}

\* A harness that ended well, and one whose sandbox could not be cleaned up.
MCHarnesses ==
    {[NoHarnessResult EXCEPT !.exit_code = 0, !.failure_kind = None], NoHarnessResult}

MCScorers == <<"command", "exact-content", "allowed-diff", "forbidden-path">>
MCAllowed == {<<"a">>, <<"n", Slash>>}
MCForbidden == {<<"d", "g">>, <<"n", "c">>}
MCExactPath == <<"a">>
=============================================================================
