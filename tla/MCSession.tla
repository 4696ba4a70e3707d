----------------------------- MODULE MCSession -----------------------------
(* A browser with two tabs, and the same user's second browser with one.  *)
EXTENDS Session

CONSTANTS b1, b2

BrowsersValue == {b1, b2}
AllTabsValue  == {<<b1, 1>>, <<b1, 2>>, <<b2, 1>>}
=============================================================================
