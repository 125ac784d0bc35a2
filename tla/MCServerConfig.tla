--------------------------- MODULE MCServerConfig ---------------------------
EXTENDS ServerConfig

P(steps, has) == [steps |-> steps, has |-> has, alike |-> {}]
\* The server has other objects too, whose names contain those of the definition.
Q(steps, has, others) == [P(steps, has) EXCEPT !.alike = others]

\* Every step is in some plan, and what it depends on is made by the plan or by
\* an earlier one.
MCPlans ==
    {P(<<"channels_sync", "activation_key">>, {}),
     P(<<"appstreams", "key_packages">>, {"channel", "key"}),
     P(<<"config_channels", "system_groups">>, {}),
     P(<<"activation_keys", "environments">>, {"channel", "group", "info key"}),
     P(<<"salt_states", "monitoring", "snippets">>, {}),
     P(<<"distributions", "kickstart_profiles", "virtual_guests">>, {"channel", "key"}),
     P(<<"image_stores", "image_profiles", "image_imports">>, {"build host", "system"}),
     P(<<"image_build_hosts", "image_builds">>, {"image profile"}),
     P(<<"users", "access_groups">>, {}),
     P(<<"access_groups_of_users">>, {"user"}),
     P(<<"ansible_control_node">>, {}),
     P(<<"ansible_paths">>, {"default path"}),
     P(<<"content_projects", "lifecycle_actions">>, {"channel"}),
     P(<<"custom_values">>, {"info key"}),
     P(<<"custom_info_keys", "system_tags">>, {"system"}),
     P(<<"grafana_formula">>, {}),
     P(<<"host_managers", "mcp_server">>, {"system"}),
     P(<<"custom_channels", "patches">>, {"rhnpush", "system"}),
     P(<<"maintenance_calendars", "maintenance_schedules">>, {}),
     P(<<"recurring_actions">>, {}),
     P(<<"system_profiles">>, {}),
     P(<<"action_chains">>, {}),
     P(<<"organizations">>, {"channel"}),
     P(<<"organizations", "org_transfers">>, {"organization", "trust", "channel", "synced", "system"}),
     P(<<"client_registration">>, {"channel", "key"}),
     P(<<"scap_scans", "scap_policies">>, {}),
     P(<<"ansible_playbooks", "environment_schedules">>, {"group", "ansible path", "control node"}),
     P(<<"sso">>, {}),
     Q(<<"channels_sync", "activation_key">>, {}, {"key"}),
     Q(<<"channels_sync", "appstreams">>, {"key"}, {"channel", "key"}),
     Q(<<"config_channels", "system_groups">>, {}, {"config channel", "group systems"}),
     Q(<<"users", "access_groups">>, {}, {"user", "access group"}),
     Q(<<"organizations">>, {"channel"}, {"trust", "organization", "group"})}
=============================================================================
