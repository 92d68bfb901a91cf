----------------------------- MODULE MCAppStore -----------------------------
(***************************************************************************)
(* Two nodes, one window, and up to MaxRequests requests.  Answers differ  *)
(* whenever what was asked differs, so a stale one is told from a fresh    *)
(* one.                                                                    *)
(***************************************************************************)
EXTENDS AppStore

MCNear(s, v) == {<<s, v.hops, v.dir, v.window>>}
MCOnPath(x, y, w) == {<<x, 0, y, w>>}
MCAttack(x, y) == IF x = y THEN << >>
                  ELSE <<{<<x, 1, y, "hop">>, <<x, 2, y, "hop">>}, {<<x, 1, y, "hop">>, <<x, 3, y, "hop">>}>>
MCHops == {0, 2}
=============================================================================
