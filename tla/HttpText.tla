------------------------------ MODULE HttpText ------------------------------
(***************************************************************************)
(* The text of one request on its way through Request::Request, the choice *)
(* of the handler, CGIRunner::ParseCGIRunner and the Content-Type of       *)
(* Response: Split, Join, Trim, Format and the searches, with their limits.*)
(*                                                                         *)
(* A text is a sequence of lexemes: the delimiters the code looks for, and *)
(* words that stand for what is between them.  Positions count from 0.     *)
(***************************************************************************)
EXTENDS Naturals, Sequences, SequencesExt

CONSTANTS
  Lexemes,     \* what texts are made of
  Upper,       \* Upper[x]: the lexeme x in capitals
  Inputs,      \* requests: a first line, header lines, and whether they end in a blank line
  Directory,   \* the serving directory
  SizeMax      \* the largest value of size_t

Text == Seq(Lexemes)

CRLF == "\r\n"
kHTTPVersion  == <<"HTTP", "/", "1", ".", "1">>
kDefaultRoute == <<"index", ".", "html">>

\* The text from which the Request is constructed.
RequestText(request) ==
  FlattenSeq([i \in 1..(Len(request.heads) + 1) |->
                Append(IF i = 1 THEN request.line ELSE request.heads[i - 1], CRLF)])
    \o (IF request.ended THEN <<CRLF>> ELSE <<>>)

\* No blank, colon or dot comes or goes with the case of a lexeme; a line has
\* no line end in it, a header line is not empty, and no text is as long as
\* npos.
ASSUME TextAssumption ==
  /\ Upper \in [Lexemes -> Lexemes]
  /\ \A d \in {" ", ":", "."} : \A x \in Lexemes : Upper[x] = d <=> x = d
  /\ {CRLF, " ", ":", "&", "cgi-bin", "Connection", "Keep-Alive"} \subseteq Lexemes
  /\ Directory \in Text /\ kDefaultRoute \in Text
  /\ SizeMax \in Nat
  /\ \A request \in Inputs :
       /\ request \in [line : Text, heads : Seq(Text), ended : BOOLEAN]
       /\ ~ Contains(request.line, CRLF)
       /\ \A k \in DOMAIN request.heads :
            request.heads[k] # <<>> /\ ~ Contains(request.heads[k], CRLF)
       /\ Len(RequestText(request)) < SizeMax
       /\ Len(Directory) + Len(request.line) + Len(kDefaultRoute) < SizeMax

VARIABLES
  input,     \* the request
  pc,        \* where its handling is
  rest,      \* the lines not yet looked at
  method, version, url, close, headers,    \* members of Request
  argv,      \* the command line of the CGI program
  mime       \* the Content-Type of the response, "none" without one

vars == <<input, pc, rest, method, version, url, close, headers, argv, mime>>

-----------------------------------------------------------------------------
(* Strings.                                                                *)

npos == SizeMax

\* str.substr(pos, n): at most what the string has.
substr(str, pos, n) == SubSeq(str, pos + 1, Min({pos + n, Len(str)}))

Least(positions) == IF positions = {} THEN npos ELSE Min(positions)

\* str.find(lexeme, pos)
find(str, lexeme, pos) == Least({i \in pos..(Len(str) - 1) : str[i + 1] = lexeme})

\* Variant: what follows the last delimiter is a token even if it is empty.
SplitKeepsLast(str, delim) ==
  LET from[curr \in 0..Len(str)] ==
        LET next == find(str, delim, curr) IN
        IF next # npos THEN <<substr(str, curr, next - curr)>> \o from[next + 1]
        ELSE <<substr(str, curr, Len(str) - curr)>>
  IN from[0]

\* Split: the loop over the delimiters, from position curr on.
Split(str, delim) ==
  LET from[curr \in 0..Len(str)] ==
        LET next == find(str, delim, curr) IN
        IF next # npos THEN <<substr(str, curr, next - curr)>> \o from[next + 1]
        ELSE IF curr # Len(str) THEN <<substr(str, curr, Len(str) - curr)>>
        ELSE <<>>
  IN from[0]

\* Variant: the delimiters between the tokens are forgotten.
JoinBare(tokens, delim) == FlattenSeq(tokens)

Join(tokens, delim) ==
  IF tokens = <<>> THEN <<>>
  ELSE FlattenSeq([i \in 1..(Len(tokens) - 1) |-> Append(tokens[i], delim)]) \o Last(tokens)

\* Trim hands the start of the part to a constructor that reads up to the end
\* of the string: the delimiters at the end stay.
Trim(str, delim) ==
  substr(str, Least({i \in 0..(Len(str) - 1) : str[i + 1] # delim} \cup {Len(str)}), Len(str))

ToUpper(str) == [i \in DOMAIN str |-> Upper[str[i]]]

\* Variant: words are compared as they come.
FormatNot(str) == str

Format(str) == ToUpper(Trim(str, " "))

Methods    == {"GET", "HEAD"}
Extensions == {"HTML", "CSS", "PNG", "JPG", "JPEG", "GIF"}

\* The entry of a table that is found under the word.
Named(word, names, default) ==
  IF \E name \in names : Format(word) = <<name>> THEN Format(word)[1] ELSE default

ToMethod(word)    == Named(word, Methods, "UNSUPPORTED")
ToVersion(word)   == IF Format(word) = kHTTPVersion THEN "HTTP/1.1" ELSE "UNSUPPORTED"
ToExtension(word) == Named(word, Extensions, "OCTET")

-----------------------------------------------------------------------------
(* Header and Request.                                                     *)

Header(line) ==
  LET tokens == Split(line, ":") IN
  IF Len(tokens) < 2 THEN [valid |-> FALSE]
  ELSE [valid |-> TRUE, key |-> tokens[1], value |-> Join(Tail(tokens), ":")]

Serialize(header) == header.key \o <<":">> \o header.value \o <<CRLF>>

Init ==
  /\ input \in Inputs
  /\ pc = "lines" /\ rest = <<>>
  /\ method = "UNSUPPORTED" /\ version = "UNSUPPORTED" /\ url = <<>>
  /\ close = TRUE /\ headers = <<>>
  /\ argv = <<>> /\ mime = "none"

SplitLines ==
  /\ pc = "lines"
  /\ LET lines == Split(RequestText(input), CRLF) IN
     \/ /\ Len(lines) < 2 \/ Last(lines) # <<>>
        /\ pc' = "refused" /\ UNCHANGED rest
     \/ /\ ~ (Len(lines) < 2 \/ Last(lines) # <<>>)
        /\ pc' = "line" /\ rest' = Front(lines)
  /\ UNCHANGED <<input, method, version, url, close, headers, argv, mime>>

\* The default route of an empty url and of one that ends in a slash.
Routed(path) == IF path = <<>> \/ Last(path) = "/" THEN path \o kDefaultRoute ELSE path

ParseRequestLine ==
  /\ pc = "line"
  /\ LET tokens == Split(Head(rest), " ") IN
     /\ method' = IF Len(tokens) = 3 THEN ToMethod(tokens[1]) ELSE method
     /\ version' = IF method' # "UNSUPPORTED" THEN ToVersion(tokens[3]) ELSE version
     /\ url' = IF version' # "UNSUPPORTED" THEN Routed(tokens[2]) ELSE url
  /\ pc' = IF version' # "UNSUPPORTED" THEN "headers" ELSE "refused"
  /\ rest' = Tail(rest)
  /\ UNCHANGED <<input, close, headers, argv, mime>>

\* ScanHeader
KeepsAlive(header) ==
  /\ Format(header.key) = Format(<<"Connection">>)
  /\ Format(header.value) = Format(<<"Keep-Alive">>)

\* One iteration of the loop over the header lines.
ReadHeader ==
  /\ pc = "headers" /\ rest # <<>>
  /\ rest' = Tail(rest)
  /\ LET header == Header(Head(rest)) IN
     \/ /\ header.valid
        /\ headers' = Append(headers, header)
        /\ close' = (close /\ ~ KeepsAlive(header))
        /\ UNCHANGED pc
     \/ /\ ~ header.valid
        /\ pc' = "refused" /\ UNCHANGED <<headers, close>>
  /\ UNCHANGED <<input, method, version, url, argv, mime>>

-----------------------------------------------------------------------------
(* The handlers.                                                           *)

resource_full_path == Directory \o url

IsCGIRequest(path) == find(path, "cgi-bin", 0) # npos

\* The request is valid and goes to one of the two handlers.
ChooseHandler ==
  /\ pc = "headers" /\ rest = <<>>
  /\ pc' = IF IsCGIRequest(resource_full_path) THEN "cgi" ELSE "static"
  /\ UNCHANGED <<input, rest, method, version, url, close, headers, argv, mime>>

\* new char*[n + 2]: the path, the arguments and the null pointer.
BuildArgv(path, arguments) == <<path>> \o arguments \o <<"nullptr">>

\* Variant: the separator is searched from the start of the url.
SeparatorAnywhere(path) == find(path, "&", 0)

\* The first separator behind the folder's name.
CgiSeparator(path) == find(path, "&", find(path, "cgi-bin", 0))

\* cgi_separator + 1 is a sum of size_t: it is 0 if there is no separator.
ParseCGIRunner ==
  /\ pc = "cgi"
  /\ LET cgi_separator == CgiSeparator(resource_full_path)
         behind == (cgi_separator + 1) % (SizeMax + 1)
     IN argv' = BuildArgv(substr(resource_full_path, 0, cgi_separator),
                          Split(substr(resource_full_path, behind, npos), "&"))
  /\ pc' = "done"
  /\ UNCHANGED <<input, rest, method, version, url, close, headers, mime>>

\* Variant: the first dot is taken.
FirstDot(path) == Least({i \in 0..(Len(path) - 1) : path[i + 1] = "."})

LastDot(path) ==
  LET dots == {i \in 0..(Len(path) - 1) : path[i + 1] = "."}
  IN IF dots = {} THEN npos ELSE Max(dots)

\* The Content-Type of a file that exists; the type is named by its extension.
ContentType ==
  /\ pc = "static"
  /\ LET last_dot == LastDot(resource_full_path) IN
     mime' = IF last_dot = npos THEN "none"
             ELSE ToExtension(substr(resource_full_path, last_dot + 1, npos))
  /\ pc' = "done"
  /\ UNCHANGED <<input, rest, method, version, url, close, headers, argv>>

Next ==
  \/ SplitLines \/ ParseRequestLine \/ ReadHeader
  \/ ChooseHandler \/ ParseCGIRunner \/ ContentType

Spec == Init /\ [][Next]_vars

-----------------------------------------------------------------------------
(* Properties: what the parser decides, said without its loops.            *)

Valid == pc \in {"cgi", "static", "done"}
Parsed == Valid \/ pc = "refused"

\* A method, a blank, a url, a blank, the version and perhaps another blank.
GoodLine(line) ==
  \E name \in Methods, tail \in {<<>>, <<" ">>}, n \in 2..Len(line) :
     LET path == SubSeq(line, 3, n) IN
     /\ ~ Contains(path, " ")
     /\ ToUpper(line) = <<name, " ">> \o ToUpper(path) \o <<" ">> \o kHTTPVersion \o tail

\* A colon that is not the last character.
GoodHeader(line) == \E i \in 1..(Len(line) - 1) : line[i] = ":"

\* Request::Request accepts exactly the texts that end in a blank line, begin
\* with a line of three words, the first and the last of them known, and have
\* only headers with a colon before their end: "Host:" refuses a request.
ValidExactly ==
  Parsed => (Valid <=> /\ input.ended
                       /\ GoodLine(input.line)
                       /\ \A i \in DOMAIN input.heads : GoodHeader(input.heads[i]))

\* The headers of a valid request are the lines it was sent with: written out
\* again they are the same, but for one colon at the end of a line, and
\* Header's Join puts back the colons of a value such as 127.0.0.1:20080.
HeadersReadBack ==
  Valid =>
    /\ Len(headers) = Len(input.heads)
    /\ \A i \in DOMAIN headers :
         LET line == input.heads[i] IN
         Serialize(headers[i]) = (IF Last(line) = ":" THEN Front(line) ELSE line) \o <<CRLF>>

Blanks(n) == [i \in 1..n |-> " "]

KeepAliveLine(line) ==
  \E n, k \in 0..Len(line), tail \in {<<>>, <<":">>} :
     ToUpper(line) = Blanks(n) \o <<Upper["Connection"], ":">> \o Blanks(k) \o <<Upper["Keep-Alive"]>> \o tail

\* A blank at the end of the line or of its name, which Trim keeps.
BlankBehind(line) ==
  \E i \in DOMAIN line : line[i] = " " /\ (i = Len(line) \/ line[i + 1] = ":")

\* The connection of a valid request is kept exactly if one of its headers is
\* Connection: Keep-Alive, in any case and with any blanks before the words; a
\* later Connection header does not take it back.  Requests with a blank behind
\* a name or a value are left out: there the comment on Trim, "Remove the leading
\* and trailing specified delimiter", and its code disagree.
KeptExactly ==
  Valid /\ (\A i \in DOMAIN input.heads : ~ BlankBehind(input.heads[i]))
    => (~ close <=> \E i \in DOMAIN input.heads : KeepAliveLine(input.heads[i]))

\* A CGI program is called by the part of the path that ends at the first
\* separator behind the folder; the arguments are the rest, but for one
\* separator at its end.  Without a separator the path is also its own
\* argument list (npos + 1).
CgiCommandLine ==
  pc = "done" /\ argv # <<>> =>
    LET path == Head(argv)
        arguments == Join(SubSeq(argv, 2, Len(argv) - 1), "&")
        full == Directory \o url
        sent == IF Last(full) = "&" THEN Front(full) ELSE full
    IN /\ Contains(path, "cgi-bin") /\ Last(argv) = "nullptr"
       /\ \A i, j \in DOMAIN path : i < j /\ path[i] = "cgi-bin" => path[j] # "&"
       /\ IF path = full THEN arguments = full
          ELSE \/ sent = path /\ arguments = <<>>
               \/ sent = path \o <<"&">> \o arguments

\* The type of a static resource follows from what stands behind its last dot,
\* in whatever case, and from nothing before it.
TypedByExtension ==
  pc = "done" /\ argv = <<>> =>
    LET full == Directory \o url IN
    /\ (mime = "none") <=> ~ Contains(full, ".")
    /\ \A name \in Extensions : mime = name <=>
         \E n \in 1..Len(full), k \in 0..Len(full) :
            ToUpper(SubSeq(full, n, Len(full))) = <<".">> \o Blanks(k) \o <<name>>
=============================================================================
