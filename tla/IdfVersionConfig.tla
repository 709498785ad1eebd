-------------------------- MODULE IdfVersionConfig --------------------------
(***************************************************************************)
(* The ESP-IDF version guards of src/slave/main/slave_wifi_config.h and    *)
(* src/host/port/esp/freertos/include/esp_hosted_wifi_config.h, as         *)
(* operators over an ESP-IDF version. ESP_IDF_VERSION_VAL packs a version  *)
(* as (major << 16) | (minor << 8) | patch. The version is a variable      *)
(* fixed in the initial state so that TLC checks every supported version.  *)
(***************************************************************************)
EXTENDS Naturals, Bitwise

CONSTANTS Minors, Patches   \* the 5.x.y versions checked

ESP_IDF_VERSION_VAL(major, minor, patch) == (major * 2^16) | (minor * 2^8) | patch

\* Both headers: #error below 5.3.1.
Supported(v) == v >= ESP_IDF_VERSION_VAL(5, 3, 1)

\* slave_wifi_config.h: (V < 5.3.3) || (V < 5.4.1) ? 0 : 1
slave_H_GOT_AP_CONFIG_PARAM_TRANSITION_DISABLE(v) ==
    IF v < ESP_IDF_VERSION_VAL(5, 3, 3) \/ v < ESP_IDF_VERSION_VAL(5, 4, 1) THEN 0 ELSE 1

\* esp_hosted_wifi_config.h: the same condition.
host_H_GOT_AP_CONFIG_PARAM_TRANSITION_DISABLE(v) ==
    IF v < ESP_IDF_VERSION_VAL(5, 3, 3) \/ v < ESP_IDF_VERSION_VAL(5, 4, 1) THEN 0 ELSE 1

\* What the comment above both guards says: wifi_ap_config_t::transition_disable
\* is "only found in IDF v5.3.3 and above, or IDF v5.4.1 and above", i.e. in
\* 5.3.3 and later patches of 5.3, and from 5.4.1 on.
HasTransitionDisable(major, minor, patch) ==
    \/ major = 5 /\ minor = 3 /\ patch >= 3
    \/ ESP_IDF_VERSION_VAL(major, minor, patch) >= ESP_IDF_VERSION_VAL(5, 4, 1)

VARIABLE version   \* [major, minor, patch]

Init ==
    version \in {v \in [major : {5}, minor : Minors, patch : Patches] :
                    Supported(ESP_IDF_VERSION_VAL(v.major, v.minor, v.patch))}

Next == UNCHANGED version

Spec == Init /\ [][Next]_version

(* The transition_disable guard of both headers is 1 exactly for the       *)
(* versions whose wifi_ap_config_t has the field, as their comment states. *)
TransitionDisableMatchesComment ==
    LET v   == ESP_IDF_VERSION_VAL(version.major, version.minor, version.patch)
        has == IF HasTransitionDisable(version.major, version.minor, version.patch) THEN 1 ELSE 0
    IN  /\ slave_H_GOT_AP_CONFIG_PARAM_TRANSITION_DISABLE(v) = has
        /\ host_H_GOT_AP_CONFIG_PARAM_TRANSITION_DISABLE(v) = has
=============================================================================
