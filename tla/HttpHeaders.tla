---------------------------- MODULE HttpHeaders ----------------------------
(***************************************************************************)
(* The headers and the body of one request or response of src/http.rs.     *)
(* Names are pairs of a key and a spelling, values are lengths.            *)
(***************************************************************************)
EXTENDS ListFilter

CONSTANTS
    Key,            \* header names, in lower case
    ContentLength,  \* "content-length"
    ContentType,    \* "content-type"
    Spelling,       \* ways to write a name
    Lower,          \* the spelling in lower case
    None,           \* Option::None
    MaxLength,      \* bound: the length of a body, and other values
    MaxHeaders      \* bound: headers in a message

Value == 0 .. MaxLength
Name == Key \X Spelling
ToLowercase(name) == <<name[1], Lower>>

\* The entries that are stored under a name, and the others.
Under(name) == {ToLowercase(name)} \X Value
But(name) == (Name \ {ToLowercase(name)}) \X Value

VARIABLES
    headers,  \* the entries, in the order they were added
    body      \* the length of the body

vars == <<headers, body>>

Init ==
    /\ headers = <<>>
    /\ body = 0

\* Request::get, put and delete, which add no header, put neither.
NewBare(n) ==
    /\ headers' = <<>>
    /\ body' = n

\* Request::post and Response::new, with the constructors that only call it.
NewSized(n) ==
    /\ headers' = <<<<<<ContentLength, Lower>>, n>>>>
    /\ body' = n

\* Response::ok and json, and the response to a static file.
NewTyped(n, type) ==
    /\ headers' = <<<<<<ContentLength, Lower>>, n>>, <<<<ContentType, Lower>>, type>>>>
    /\ body' = n

\* The body is a public field: nothing keeps the header with it.
SetBody(n) ==
    /\ body' = n
    /\ UNCHANGED headers

\* Slip: the name is stored as it was written.
AddAsWritten(name, v) ==
    /\ Len(headers) < MaxHeaders
    /\ headers' = Append(headers, <<name, v>>)
    /\ UNCHANGED body

Add(name, v) ==
    /\ Len(headers) < MaxHeaders
    /\ headers' = Append(headers, <<ToLowercase(name), v>>)
    /\ UNCHANGED body

Delete(name) ==
    /\ headers' = Filter(headers, But(name))
    /\ UNCHANGED body

\* The first value of a name.
Get(name) ==
    LET found == Filter(headers, Under(name)) IN
    IF found = <<>> THEN None ELSE found[1][2]

Next ==
    \/ \E n \in Value : \/ NewBare(n) \/ NewSized(n) \/ SetBody(n)
                        \/ \E type \in Value : NewTyped(n, type)
    \/ \E name \in Name : Delete(name) \/ \E v \in Value : Add(name, v)

-----------------------------------------------------------------------------
(***************************************************************************)
(* Properties.                                                             *)
(***************************************************************************)

TypeOK ==
    /\ headers \in Seq((Key \X {Lower}) \X Value) /\ Len(headers) <= MaxHeaders
    /\ body \in Value

\* The values of a key, in the order they were added.
Values == [k \in Key |->
              LET own == Filter(headers, Under(<<k, Lower>>))
              IN  [i \in DOMAIN own |-> own[i][2]]]

Multimap == INSTANCE HeaderMap WITH values <- Values, size <- Len(headers)

\* The list of entries is a map from keys to lists of values, whatever spelling a
\* name is added or deleted under: a later value never hides or replaces the first
\* one, so a corrected content-length is not seen until the old one is deleted.
ImplementsHeaderMap == Multimap!Spec
=============================================================================
