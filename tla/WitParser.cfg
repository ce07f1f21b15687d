SPECIFICATION ParserSpec
CONSTANTS
    MaxTokens = 19
    MaxRepeat = 1
    Often = {"package", "ident", "colon", "semicolon", "lparen", "rparen", "lbrace", "rbrace", "constructor"}
    Token = {"ident", "lbrace", "rbrace", "lparen", "rparen", "langle", "rangle", "world",
             "interface", "resource", "use", "func", "record", "result",
             "constructor", "import", "colon", "semicolon", "comma", "at", "dot", "doc", "package",
             "eof"}
INVARIANTS BracketsMatch NamesKept
CHECK_DEADLOCK FALSE
