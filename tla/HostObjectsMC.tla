---------------------------- MODULE HostObjectsMC ---------------------------
(***************************************************************************)
(* The instance of HostObjects for TLC: one directory's prefix begins with *)
(* the other's, so that both may hold a file for a URL, and the order of   *)
(* the two middleware decides where a request ends.                        *)
(***************************************************************************)
EXTENDS HostObjects

CONSTANTS static, css, file, get, post, data1, data2

Page == <<static, css, file>>
MCMethod == {get, post}
MCUrl == {<<>>, <<file>>, Page}
MCPrefix == {<<static>>, <<static, css>>}
MCFiles == {[q \in {<<css, file>>} |-> data1], [q \in {<<file>>} |-> data2]}

ToPage == [ep \in MCMethod \X MCUrl |-> <<get, Page>>]
ToFile == [ep \in MCMethod \X MCUrl |-> IF ep[2] = Page THEN <<ep[1], <<file>>>> ELSE ep]
MCMiddleware == {ToPage, ToFile}
=============================================================================
