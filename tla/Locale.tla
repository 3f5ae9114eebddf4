------------------------------- MODULE Locale -------------------------------
(***************************************************************************)
(* core/runtime/i18n.py: the plural rules, the choice of a locale from the *)
(* Accept-Language header, and the locale of a shared I18n object.  The    *)
(* plural rules claim to be those of CLDR, which CLDR below restates for   *)
(* whole numbers.                                                          *)
(***************************************************************************)
EXTENDS Integers, SequencesExt

CONSTANTS
    Tags,           \* first languages of Accept-Language: [lang, country]
    MaxCount        \* bound: the largest number formatted

VARIABLES
    locale,     \* I18n.current_locale: its place in Locales, 0 for None
    count       \* the number to be formatted

localeVars == <<locale, count>>

LocaleInit == locale = 0 /\ count = 0

-----------------------------------------------------------------------------
(* MessageFormatter *)

OneOther(n) == IF n = 1 THEN "one" ELSE "other"

FrenchPlural(n) == IF n \in {0, 1} THEN "one" ELSE "other"

ArabicPlural(n) ==
    CASE n = 0 -> "zero"
      [] n = 1 -> "one"
      [] n = 2 -> "two"
      [] n \in 3..10 -> "few"
      [] n \in 11..99 -> "many"
      [] OTHER -> "other"

RussianPlural(n) ==
    LET r == n % 100 IN
    CASE r = 1 -> "one"
      [] r \in 2..4 -> "few"
      [] r \in 5..20 \/ (r > 20 /\ r % 10 >= 5) -> "many"
      [] OTHER -> "other"

PolishIf(n, few) == IF n = 1 THEN "one" ELSE IF few THEN "few" ELSE "other"

PolishPluralTeens(n) == PolishIf(n, n % 10 \in 2..4)

PolishPlural(n) == PolishIf(n, n % 10 \in 2..4 /\ n % 100 \notin 10..19)

Rules == {"en", "es", "fr", "de", "ar", "ru", "pl", "zh"}

\* _get_plural_form
PluralForm(n, rule) ==
    CASE rule \in {"en", "es", "de"} -> OneOther(n)
      [] rule = "fr" -> FrenchPlural(n)
      [] rule = "ar" -> ArabicPlural(n)
      [] rule = "ru" -> RussianPlural(n)
      [] rule = "pl" -> PolishPlural(n)
      [] rule = "zh" -> "other"

-----------------------------------------------------------------------------
(* I18n *)

Tag(lang, country) == [lang |-> lang, country |-> country]

\* _load_locales, in the order of the dictionary
Locales == <<Tag(<<"e", "n">>, "US"), Tag(<<"e", "s">>, "MX"),
             Tag(<<"e", "s">>, "ES"), Tag(<<"f", "r">>, "FR")>>

\* The default of LocaleConfig, which no entry of the table overrides.
RuleOf(l) == "en"

\* _parse_accept_language: the tag itself, or the first code that starts
\* with its language, or en-US.
ParseAcceptLanguage(tag) ==
    LET exact == {l \in DOMAIN Locales : Locales[l] = tag}
        similar == {l \in DOMAIN Locales : IsPrefix(tag.lang, Locales[l].lang)}
        First(ls) == CHOOSE l \in ls : \A k \in ls : l <= k
    IN  IF exact # {} THEN First(exact) ELSE IF similar # {} THEN First(similar) ELSE 1

\* get_locale
CurrentLocale == IF locale = 0 THEN 1 ELSE locale

\* set_locale with what detect_locale has found in the header.
SetFromHeader(tag) == locale' = ParseAcceptLanguage(tag) /\ UNCHANGED count

\* detect_locale answers what a session or a cookie says without a look at
\* the table; set_locale raises for a code that is not there.
SetFromCookie(l) ==
    /\ locale' = IF l \in DOMAIN Locales THEN l ELSE locale
    /\ UNCHANGED count

CountUp == count < MaxCount /\ count' = count + 1 /\ UNCHANGED locale

LocaleNext ==
    \/ \E tag \in Tags : SetFromHeader(tag)
    \/ \E l \in 0..Len(Locales) : SetFromCookie(l)
    \/ CountUp

-----------------------------------------------------------------------------
(* Properties *)

\* The plural category of a whole number below a million, from CLDR.
CLDR(n, rule) ==
    LET d == n % 10
        r == n % 100
    IN  CASE rule \in {"en", "es", "de"} -> IF n = 1 THEN "one" ELSE "other"
          [] rule = "fr" -> IF n <= 1 THEN "one" ELSE "other"
          [] rule = "zh" -> "other"
          [] rule = "ar" -> IF n = 0 THEN "zero" ELSE IF n = 1 THEN "one"
                            ELSE IF n = 2 THEN "two" ELSE IF r \in 3..10 THEN "few"
                            ELSE IF r \in 11..99 THEN "many" ELSE "other"
          [] rule = "ru" -> IF d = 1 /\ r # 11 THEN "one"
                            ELSE IF d \in 2..4 /\ r \notin 12..14 THEN "few" ELSE "many"
          [] rule = "pl" -> IF n = 1 THEN "one"
                            ELSE IF d \in 2..4 /\ r \notin 12..14 THEN "few" ELSE "many"

\* "Pluralization rules per CLDR."
PluralsPerCLDR == \A rule \in Rules : PluralForm(count, rule) = CLDR(count, rule)

\* Where the rules are not those of CLDR: Russian after the first twenty of a hundred,
\* Polish without a form for many, Arabic from 103 on.
Deviates(n, rule) ==
    \/ rule = "ru" /\ (n % 100 = 0 \/ (n % 100 > 20 /\ n % 10 < 5))
    \/ rule = "pl" /\ n # 1 /\ ~(n % 10 \in 2..4 /\ n % 100 \notin 12..14)
    \/ rule = "ar" /\ n > 102 /\ n % 100 > 2

\* For these numbers, and for no other, a rule answers the general form in place of
\* another that CLDR has.  The rule that a locale uses, which is the English one, is right
\* for its language but for nought in French.
PluralsExact ==
    /\ \A rule \in Rules :
          IF Deviates(count, rule)
          THEN PluralForm(count, rule) = "other" /\ CLDR(count, rule) # "other"
          ELSE PluralForm(count, rule) = CLDR(count, rule)
    /\ LET language == <<"en", "es", "es", "fr">>[CurrentLocale] IN
       (PluralForm(count, RuleOf(CurrentLocale)) = CLDR(count, language)) <=>
           ~(language = "fr" /\ count = 0)

\* A header always leads to a locale of the table, and to one in the language
\* asked for when there is one.
HeaderHonoured ==
    \A tag \in Tags :
        LET l == ParseAcceptLanguage(tag) IN
        /\ l \in DOMAIN Locales
        /\ (\E k \in DOMAIN Locales : Locales[k].lang = tag.lang) =>
              Locales[l].lang = tag.lang

\* The user is answered in a language of the table, the one asked for if it can be, and
\* with the plural of CLDR except where the rules are known to deviate.
LocaleSound ==
    locale \in 0..Len(Locales) /\ HeaderHonoured /\ PluralsExact
=============================================================================
