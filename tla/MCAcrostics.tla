------------------------------ MODULE MCAcrostics ------------------------------
(***************************************************************************)
(* Vocabularies for AcrosticController: the way the tokenizer cuts words,  *)
(* punctuation and line breaks, or single characters.                      *)
(***************************************************************************)
EXTENDS AcrosticController

TwoLetters == {"a", "b"}
SecretAB == <<"a", "b">>

\* A word with and without its leading space, terminators with the line breaks
\* the tokenizer merges into them, a space, and the marks of headings, quotations,
\* bullets and emphasis.
WordTokens ==
  {<<"a">>, <<" ", "b">>, <<".">>, <<".", "nl">>, <<"nl">>, <<" ">>, <<"#">>, <<">">>, <<"*">>}

\* Inline code.
CodeTokens == {<<"a">>, <<" ", "b">>, <<".">>, <<" ">>, <<"tick">>, <<" ", "tick">>}
=============================================================================
