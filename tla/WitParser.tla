----------------------------- MODULE WitParser ------------------------------
(***************************************************************************)
(* The recursive-descent parser of WIT documents, src/wit_parser.rs, over  *)
(* the token kinds of src/wit_lexer.rs.                                    *)
(*                                                                         *)
(* A parse function is what it still has to do: the tokens it will expect  *)
(* and the functions it will call, chosen by the token it peeks at.  The   *)
(* Rust call stack is then one sequence, calls, and a step of the parser   *)
(* goes into a function or takes one token off the input.  What the input  *)
(* is shows as it is peeked at.  Of the document the model keeps which     *)
(* identifiers of the input are in it.                                     *)
(***************************************************************************)
EXTENDS Integers, Sequences, FiniteSets, Functions

CONSTANTS
    Token,       \* the token kinds the input is made of
    Often,       \* the ones an input may have many of
    MaxRepeat,   \* bound: of each other one
    MaxTokens    \* bound: tokens of one input

Ident     == {"ident", "as", "underscore"}     \* identifiers, the two with a meaning apart
Primitive == {"u8", "u16", "u32", "u64", "s8", "s16", "s32", "s64",
              "f32", "f64", "bool", "char", "string"}
Opening == {"lbrace", "lparen", "langle"}
Closing == {"rbrace", "rparen", "rangle"}

\* WitTokenKind; the lexer leaves comments out and ends with one eof.
TokenKind ==
    Ident \union Primitive \union Opening \union Closing
      \union {"package", "world", "interface", "resource", "use", "func", "record", "enum",
              "variant", "flags", "type", "static", "constructor", "own", "borrow",
              "import", "export", "include", "list", "option", "result", "tuple",
              "colon", "semicolon", "comma", "dot", "slash", "at", "equals", "arrow", "star",
              "semver", "integer", "doc", "eof"}

ASSUME TokensAssumption ==
    /\ Token \subseteq TokenKind /\ Often \subseteq Token
    /\ MaxRepeat \in Nat /\ MaxTokens \in Nat
    /\ "eof" \in Token

VARIABLES
    source,      \* the tokens advanced over
    ahead,       \* the token after them, once one has peeked at it
    calls,       \* what the running parse functions will do, innermost first
    status,      \* "parsing", "parsed" or "failed"
    document     \* where in source the names are that each part of the document holds

parserVars == <<source, ahead, calls, status, document>>

Error == <<"error">>     \* what a function does that returns Err
Unseen == "unseen"       \* no token

-----------------------------------------------------------------------------
(***************************************************************************)
(* The parse functions, given the token they peek at.  "name" is           *)
(* expect_ident.  keep, set_package, set_constructor and new_resource are  *)
(* the assignments to the document.                                        *)
(***************************************************************************)

parse_package == <<"keep", "package", "name", "colon", "name", "package_version",
                   "semicolon", "set_package">>
package_version(t) == IF t = "at" THEN <<"at", "semver">> ELSE <<>>

parse_interface == <<"interface", "name", "lbrace", "interface_items">>
parse_world     == <<"world", "name", "lbrace", "world_items">>
parse_include   == <<"include", "name", "semicolon">>
parse_use       == <<"use", "name", "use_path", "dot", "lbrace", "use_names", "semicolon">>
parse_record    == <<"record", "name", "lbrace", "fields">>
parse_enum      == <<"enum", "name", "lbrace", "enum_cases">>
parse_variant   == <<"variant", "name", "lbrace", "variant_cases">>
parse_flags     == <<"flags", "name", "lbrace", "flag_names">>
parse_resource  == <<"new_resource", "resource", "name", "resource_body">>
parse_type_alias == <<"type", "name", "equals", "parse_type_ref", "semicolon">>

TypeDef == [record |-> "parse_record", enum |-> "parse_enum", variant |-> "parse_variant",
            flags |-> "parse_flags", type |-> "parse_type_alias"]

parse_document(t) ==
    CASE t = "eof"       -> <<>>
      [] t = "doc"       -> <<"doc", "parse_document">>
      [] t = "package"   -> <<"parse_package", "parse_document">>
      [] t = "interface" -> <<"parse_interface", "parse_document">>
      [] t = "world"     -> <<"parse_world", "parse_document">>
      [] t = "use"       -> <<"parse_use", "parse_document">>
      [] OTHER           -> Error

\* Slip: an interface has one constructor, too.
interface_items_single(t) ==
    CASE t = "rbrace"         -> <<"rbrace">>
      [] t = "doc"            -> <<"doc", "interface_items">>
      [] t \in DOMAIN TypeDef -> <<TypeDef[t], "interface_items">>
      [] t = "resource"       -> <<"parse_resource", "interface_items">>
      [] t = "use"            -> <<"parse_use", "interface_items">>
      [] t \in Ident          -> <<"parse_func_item", "interface_items">>
      [] t = "constructor"    ->
             <<"keep", "parse_constructor_func", "set_constructor", "interface_items">>
      [] OTHER                -> Error

interface_items(t) ==
    CASE t = "rbrace"         -> <<"rbrace">>
      [] t = "doc"            -> <<"doc", "interface_items">>
      [] t \in DOMAIN TypeDef -> <<TypeDef[t], "interface_items">>
      [] t = "resource"       -> <<"parse_resource", "interface_items">>
      [] t = "use"            -> <<"parse_use", "interface_items">>
      [] t \in Ident          -> <<"parse_func_item", "interface_items">>
      [] t = "constructor"    -> <<"parse_constructor_func", "interface_items">>
      [] OTHER                -> Error

world_items(t) ==
    CASE t = "rbrace"         -> <<"rbrace">>
      [] t = "doc"            -> <<"doc", "world_items">>
      [] t = "import"         -> <<"parse_world_import", "world_items">>
      [] t = "export"         -> <<"parse_world_export", "world_items">>
      [] t = "include"        -> <<"parse_include", "world_items">>
      [] t = "use"            -> <<"parse_use", "world_items">>
      [] t \in DOMAIN TypeDef -> <<TypeDef[t], "world_items">>
      [] OTHER                -> Error

parse_world_import == <<"import", "name", "extern">>
parse_world_export == <<"export", "name", "extern">>
extern(t) ==
    CASE t = "colon"     -> <<"colon", "extern_item">>
      [] t = "semicolon" -> <<"semicolon">>
      [] OTHER           -> Error
extern_item(t) == IF t = "func" THEN <<"parse_func_body", "semicolon">>
                  ELSE <<"parse_extern_path_rest", "semicolon">>

\* A path's version may be missing after its @; a package's may not.
parse_extern_path_rest == <<"name", "path_interface", "path_version">>
path_interface(t) == IF t = "slash" THEN <<"slash", "name">> ELSE <<>>
path_version(t)   == IF t = "at" THEN <<"at", "path_semver">> ELSE <<>>
path_semver(t)    == IF t = "semver" THEN <<"semver">> ELSE <<>>

use_path(t) == IF t = "colon" THEN <<"colon", "parse_extern_path_rest">> ELSE <<>>

\* The lists in braces: their members, commas between them and after the last
\* one if need be.  All but those of a use may have doc comments.
Member == [use_names |-> <<"name", "alias">>,
           fields |-> <<"name", "colon", "parse_type_ref">>,
           enum_cases |-> <<"name">>,
           variant_cases |-> <<"name", "payload">>,
           flag_names |-> <<"name">>]
Separator == [use_names |-> "use_comma", fields |-> "field_comma", enum_cases |-> "enum_comma",
              variant_cases |-> "variant_comma", flag_names |-> "flag_comma"]

members(list, t) ==
    IF t = "rbrace" THEN <<"rbrace">>
    ELSE IF t = "doc" /\ list # "use_names" THEN <<"doc", list>>
    ELSE Append(Member[list], Separator[list])

\* Slip: without a comma the list is left, and its brace with it.
comma_loose(list, t) == IF t = "comma" THEN <<"comma", list>> ELSE <<>>

comma(list, t) == IF t = "comma" THEN <<"comma", list>> ELSE <<"rbrace">>

alias(t)   == IF t = "as" THEN <<"as", "name">> ELSE <<>>
payload(t) == IF t = "lparen" THEN <<"lparen", "parse_type_ref", "rparen">> ELSE <<>>

resource_body(t) == IF t = "semicolon" THEN <<"semicolon">> ELSE <<"lbrace", "resource_items">>
resource_items(t) ==
    CASE t = "rbrace"      -> <<"rbrace">>
      [] t = "doc"         -> <<"doc", "resource_items">>
      [] t = "constructor" ->
             <<"keep", "parse_constructor_func", "set_constructor", "resource_items">>
      [] t \in Ident       -> <<"parse_func_item", "resource_items">>
      [] OTHER             -> Error

parse_func_item == <<"name", "colon", "func_static", "parse_func_body", "semicolon">>
func_static(t) == IF t = "static" THEN <<"static">> ELSE <<>>
parse_constructor_func == <<"constructor", "lparen", "parse_param_list", "rparen", "semicolon">>
parse_func_body == <<"func", "lparen", "parse_param_list", "rparen", "func_result">>
func_result(t) == IF t = "arrow" THEN <<"arrow", "parse_type_ref">> ELSE <<>>

parse_param_list(t) ==
    IF t = "rparen" THEN <<>> ELSE <<"name", "colon", "parse_type_ref", "more_params">>
more_params(t) ==
    IF t = "comma" THEN <<"comma", "name", "colon", "parse_type_ref", "more_params">> ELSE <<>>

parse_type_ref(t) ==
    CASE t \in Primitive                           -> <<t>>
      [] t \in {"list", "option", "own", "borrow"} ->
             <<t, "langle", "parse_type_ref", "rangle">>
      [] t = "result"                              -> <<t, "result_types">>
      [] t = "tuple"                               -> <<t, "langle", "tuple_types", "rangle">>
      [] t \in Ident                               -> <<"name">>
      [] OTHER                                     -> Error

result_types(t) ==
    IF t = "langle" THEN <<"langle", "result_type", "result_error", "rangle">> ELSE <<>>
result_type(t)  == IF t = "underscore" THEN <<"underscore">> ELSE <<"parse_type_ref">>
result_error(t) == IF t = "comma" THEN <<"comma", "result_type">> ELSE <<>>
tuple_types(t)  == IF t = "rangle" THEN <<>> ELSE <<"parse_type_ref", "more_types">>
more_types(t)   == IF t = "comma" THEN <<"comma", "parse_type_ref", "more_types">> ELSE <<>>

-----------------------------------------------------------------------------
(***************************************************************************)
(* Running them.                                                           *)
(***************************************************************************)

Straight == [parse_package |-> parse_package,
             parse_interface |-> parse_interface,
             parse_world |-> parse_world,
             parse_include |-> parse_include,
             parse_use |-> parse_use,
             parse_record |-> parse_record,
             parse_enum |-> parse_enum,
             parse_variant |-> parse_variant,
             parse_flags |-> parse_flags,
             parse_resource |-> parse_resource,
             parse_type_alias |-> parse_type_alias,
             parse_world_import |-> parse_world_import,
             parse_world_export |-> parse_world_export,
             parse_extern_path_rest |-> parse_extern_path_rest,
             parse_func_item |-> parse_func_item,
             parse_constructor_func |-> parse_constructor_func,
             parse_func_body |-> parse_func_body]

Peeking == {"parse_document", "package_version", "interface_items", "world_items",
            "extern", "extern_item", "path_interface", "path_version",
            "path_semver", "use_path", "alias", "payload",
            "resource_body", "resource_items", "func_static", "func_result",
            "parse_param_list", "more_params", "parse_type_ref", "result_types",
            "result_type", "result_error", "tuple_types", "more_types"}

Choosing == DOMAIN Member \union Range(Separator) \union Peeking

\* What call does when it peeks at t.
Body(call, t) ==
    CASE call \in DOMAIN Member    -> members(call, t)
      [] call = "parse_document"   -> parse_document(t)
      [] call = "package_version"  -> package_version(t)
      [] call = "interface_items"  -> interface_items(t)
      [] call = "world_items"      -> world_items(t)
      [] call = "extern"           -> extern(t)
      [] call = "extern_item"      -> extern_item(t)
      [] call = "path_interface"   -> path_interface(t)
      [] call = "path_version"     -> path_version(t)
      [] call = "path_semver"      -> path_semver(t)
      [] call = "use_path"         -> use_path(t)
      [] call = "alias"            -> alias(t)
      [] call = "payload"          -> payload(t)
      [] call = "resource_body"    -> resource_body(t)
      [] call = "resource_items"   -> resource_items(t)
      [] call = "func_static"      -> func_static(t)
      [] call = "func_result"      -> func_result(t)
      [] call = "parse_param_list" -> parse_param_list(t)
      [] call = "more_params"      -> more_params(t)
      [] call = "parse_type_ref"   -> parse_type_ref(t)
      [] call = "result_types"     -> result_types(t)
      [] call = "result_type"      -> result_type(t)
      [] call = "result_error"     -> result_error(t)
      [] call = "tuple_types"      -> tuple_types(t)
      [] call = "more_types"       -> more_types(t)
      [] OTHER -> comma(CHOOSE list \in DOMAIN Separator : Separator[list] = call, t)

\* Names in the local variables of the running functions are in local; one that
\* returns leaves them to the document.
Assigned(assignment, d) ==
    CASE assignment = "keep" ->
             [d EXCEPT !.names = @ \union d.local, !.local = {}]
      [] assignment = "set_package" ->
             [d EXCEPT !.package = d.local, !.local = {}]
      [] assignment = "set_constructor" ->
             [d EXCEPT !.constructor = d.local, !.local = {}]
      [] assignment = "new_resource" ->
             [d EXCEPT !.names = @ \union d.local \union d.constructor,
                       !.constructor = {}, !.local = {}]

Assignment == {"keep", "set_package", "set_constructor", "new_resource"}

ParserInit ==
    /\ source = <<>>
    /\ ahead = Unseen
    /\ calls = <<"parse_document">>
    /\ status = "parsing"
    /\ document = [names |-> {}, package |-> {}, constructor |-> {}, local |-> {}]

Running == status = "parsing" /\ calls # <<>>
Top == Head(calls)

\* peek: the next token is t, any kind if nobody has looked.
Peek(t) ==
    \/ ahead = t
    \/ /\ ahead = Unseen
       /\ Len(source) < MaxTokens
       /\ t \in Often \/ Cardinality({k \in DOMAIN source : source[k] = t}) < MaxRepeat

\* A function that starts alike whatever comes.
Enter ==
    /\ Running /\ Top \in DOMAIN Straight
    /\ calls' = Straight[Top] \o Tail(calls)
    /\ UNCHANGED <<source, ahead, status, document>>

\* One that peeks.
Choose(t) ==
    /\ Running /\ Top \in Choosing /\ Peek(t)
    /\ Body(Top, t) # Error
    /\ calls' = Body(Top, t) \o Tail(calls)
    /\ ahead' = t
    /\ UNCHANGED <<source, status, document>>

Deliver ==
    /\ Running /\ Top \in Assignment
    /\ calls' = Tail(calls)
    /\ document' = Assigned(Top, document)
    /\ UNCHANGED <<source, ahead, status>>

\* A token is expected, or one of a kind.
Expecting == Top \notin DOMAIN Straight \union Choosing \union Assignment
Expected(t) == IF Top = "name" THEN t \in Ident ELSE t = Top

\* It is the one expected: advance.  A name is remembered.
Advance(t) ==
    /\ Running /\ Expecting /\ Peek(t) /\ Expected(t)
    /\ source' = Append(source, t)
    /\ ahead' = Unseen
    /\ calls' = Tail(calls)
    /\ document' = IF Top = "name"
                   THEN [document EXCEPT !.local = @ \union {Len(source')}]
                   ELSE document
    /\ UNCHANGED status

\* It is not, or not one the function knows, and every function returns the error.
Fail(t) ==
    /\ Running /\ Peek(t)
    /\ IF Top \in Choosing THEN Body(Top, t) = Error ELSE Expecting /\ ~ Expected(t)
    /\ status' = "failed"
    /\ calls' = <<>> /\ ahead' = Unseen
    /\ UNCHANGED <<source, document>>

\* parse_document has seen eof and returns the document.
Finish ==
    /\ status = "parsing" /\ calls = <<>>
    /\ status' = "parsed"
    /\ UNCHANGED <<source, ahead, calls, document>>

ParserNext ==
    \/ Enter \/ Deliver \/ Finish
    \/ \E t \in Token : Choose(t) \/ Advance(t) \/ Fail(t)

ParserSpec == ParserInit /\ [][ParserNext]_parserVars

-----------------------------------------------------------------------------
(***************************************************************************)
(* Properties.                                                             *)
(***************************************************************************)

Closer == [lbrace |-> "rbrace", lparen |-> "rparen", langle |-> "rangle"]

\* A token meets the brackets that are open, innermost first: "wrong" if they cross.
Meet(open, t) ==
    IF t \in Opening THEN <<Closer[t]>> \o open
    ELSE IF t \notin Closing THEN open
    ELSE IF open # <<>> /\ Head(open) = t THEN Tail(open) ELSE <<"wrong">> \o open

\* The brackets that tokens leave open.
OpenBrackets(tokens) ==
    LET open[k \in 0 .. Len(tokens)] ==
            IF k = 0 THEN <<>> ELSE Meet(open[k - 1], tokens[k])
    IN open[Len(tokens)]

\* The bracket a pending call will close, beside those it opens itself.
Owed(call) ==
    IF call \in DOMAIN Member \union Range(Separator)
                  \union {"interface_items", "world_items", "resource_items"}
    THEN "rbrace" ELSE call

\* Brackets nest: those of the tokens read so far are closed, in order, by what
\* the running parse functions still owe.  A document that was parsed has none
\* open, and no closing brace can end a block other than the innermost.
BracketsMatch ==
    status # "failed" =>
        OpenBrackets(source \o [k \in DOMAIN calls |-> Owed(calls[k])]) = <<>>

Between(j, k) == {source[m] : m \in j + 1 .. k - 1}

\* The declaration at position j takes the place of the one at i: a package
\* that of a package, a constructor that of a constructor of the same resource.
Replaces(j, i) ==
    \/ source[i] = "package" /\ source[j] = "package"
    \/ /\ source[i] = "constructor" /\ source[j] = "constructor"
       /\ \E r \in 1 .. i - 3 : /\ source[r] = "resource" /\ source[r + 2] = "lbrace"
                                /\ "rbrace" \notin Between(r, j)

\* The document accounts for every identifier of the input, except those of a
\* package declaration or a resource constructor that a later one replaced.
NamesKept ==
    LET kept == UNION {document[part] : part \in DOMAIN document}
        lost == {n \in DOMAIN source : source[n] = "ident"} \ kept
    IN \A n \in lost : \E i \in 1 .. n - 1, j \in n + 1 .. Len(source) :
           Replaces(j, i) /\ Between(i, n) \intersect {"semicolon", "rbrace"} = {}
=============================================================================
