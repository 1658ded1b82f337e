--------------------------- MODULE MCHttpSession ---------------------------
(* A small instance of HttpSession for TLC. *)
EXTENDS HttpSession

Line(m, p, hs) ==
  [tokens |-> 3, method |-> m, version |-> "HTTP/1.1", path |-> p, headers |-> hs]

KeepAlive == [tokens |-> 2, key |-> "CONNECTION", value |-> "KEEP-ALIVE"]
Close     == [tokens |-> 2, key |-> "CONNECTION", value |-> "CLOSE"]
Host      == [tokens |-> 3, key |-> "HOST", value |-> "127.0.0.1:20080"]
Broken    == [tokens |-> 1, key |-> "BROKEN", value |-> ""]

\* GET and HEAD, kept and closed, a CGI program, the default route, and the
\* texts the parser refuses.
MCTexts ==
  { Line("GET", "/", {KeepAlive, Host}),
    Line("GET", "page", {Close}),
    Line("HEAD", "page", {KeepAlive}),
    Line("GET", "prog", {KeepAlive}),
    Line("HEAD", "prog", {KeepAlive}),
    Line("GET", "page", {KeepAlive, Broken}),
    Line("POST", "page", {KeepAlive}) }

MCPaths == {"page", "prog"}
MCCgiFolder == {"prog"}

Entry(k, n) == [kind |-> k, size |-> n]

\* The page may be absent, empty, longer, closed to the server, a directory
\* or a name that cannot be examined; the program the same but for its size.
MCDisk ==
  [page |-> {Entry("none", 0), Entry("file", 0), Entry("file", 2), Entry("locked", 1),
             Entry("directory", 0), Entry("error", 0)},
   prog |-> {Entry("none", 0), Entry("file", 1), Entry("directory", 0), Entry("error", 0)}]
=============================================================================
